---- MODULE Spec2Model ----
(***************************************************************************)
(* A model of the information-retrieval backend of IR-Test:                *)
(*   - DocumentClassificationSystem and the process-wide classifier        *)
(*     registry (IR_Rijwol_Shakya/backend/classification_ml.py),           *)
(*   - SearchEngine.search (backend/search.py),                            *)
(*   - the /search handler and its result cache                            *)
(*     (IR_Rijwol_Shakya/backend/main.py).                                 *)
(* Library code (scikit-learn, numpy, NLTK, the clock) is not part of the  *)
(* repository: what it returns is an input of the model, drawn from small  *)
(* sets, and what it leaves unspecified is a nondeterministic choice.      *)
(***************************************************************************)
EXTENDS Integers, Sequences, FiniteSets, TLC

VARIABLES
    dataDir,      \* contents of DATA_DIR: categories.csv, training_documents.csv
    seeded,       \* what train_test_split(random_state=42) returns on the
                  \* training documents of DATA_DIR (split specification)
    heap,         \* DocumentClassificationSystem objects, by object id
    registry,     \* _classifiers: model_type -> object id
    files,        \* files by path: the pickled blobs written by save_model,
                  \* and (startup specification) the corpus files
    threads,      \* the request handlers in flight (concurrent specification)
    requests,     \* the requests received so far (concurrent specification)
    counts,       \* ghost: per model_type, the classifiers _get_classifier
                  \* constructed, the auto-trainings it ran, and whether
                  \* it ever found the model_type registered
    publications, \* publications_data: the raw records loaded at startup, each
                  \* with the cosine similarity the index gives it
    tieOrder,     \* how this build's numpy argsort orders equal similarities
    cache,        \* _search_cache: key -> [ts, value]
    now,          \* time.time()
    cacheMax,     \* SEARCH_CACHE_MAX, read from the environment at startup
    last          \* the last call made and what it returned or raised

vars == <<dataDir, seeded, heap, registry, files, threads, requests, counts,
          publications, tieOrder, cache, now, cacheMax, last>>

classifierVars ==
    <<dataDir, seeded, heap, registry, files, threads, requests, counts>>
searchVars == <<publications, tieOrder, cache, now, cacheMax>>

None == "None"

\* ------------------------------------------------------------------ bounds
MaxObjs == 2

Max(a, b) == IF a >= b THEN a ELSE b
Min(a, b) == IF a <= b THEN a ELSE b
Range(f) == {f[x] : x \in DOMAIN f}
\* ceil(a / b) for a >= 0, b > 0
CeilDiv(a, b) == (a + b - 1) \div b

\* ------------------------------------------------- the data directory
\* A file of DATA_DIR: absent (open raises FileNotFoundError) or its rows.
NoSuchFile == [present |-> FALSE, rows |-> << >>]
CsvFile(rows) == [present |-> TRUE, rows |-> rows]

\* A training text is kept by what preprocess_text leaves of it:
\* "words" (some token survives) or "stop" (nothing survives).
Doc(t, c) == [text |-> t, category |-> c]

\* _load_categories' except branch
FallbackCategories == <<"politics", "business", "health">>

\* _get_fallback_training_documents
FallbackDocuments ==
    << Doc("words", "politics"), Doc("words", "business"), Doc("words", "health") >>

\* The contents DATA_DIR may have when a classifier is constructed.
DataDirs ==
    { [categories |-> NoSuchFile, training |-> NoSuchFile],
      [categories |-> CsvFile(<<"politics", "business", "health">>),
       training |-> CsvFile(
                    << Doc("words", "politics"), Doc("words", "politics"),
                       Doc("words", "business"), Doc("words", "business"),
                       Doc("words", "health"), Doc("words", "health") >>)],
      [categories |-> CsvFile(<<"politics", "business">>),
       training |-> CsvFile(
                    << Doc("words", "politics"), Doc("words", "business") >>)],
      [categories |-> CsvFile(<<"politics">>),
       training |-> CsvFile(
                    << Doc("words", "politics"), Doc("stop", "politics") >>)],
      [categories |-> CsvFile(<<"politics", "business">>),
       training |-> CsvFile(
                    << Doc("words", "politics"), Doc("words", "sports") >>)],
      [categories |-> CsvFile(<<"politics", "business">>),
       training |-> CsvFile(<< >>)],
      [categories |-> CsvFile(<<"politics", "business", "health">>),
       training |-> CsvFile(
                    << Doc("words", "politics"), Doc("words", "politics"),
                       Doc("words", "politics"), Doc("words", "business"),
                       Doc("words", "business"), Doc("words", "business") >>)],
      [categories |-> NoSuchFile,
       training |-> CsvFile(
                    << Doc("stop", "health"), Doc("stop", "business") >>)],
      [categories |-> NoSuchFile,
       training |-> CsvFile(
                    << Doc("words", "health"), Doc("words", "business") >>)],
      [categories |-> CsvFile(<<"politics", "business", "politics">>),
       training |-> CsvFile(
                    << Doc("words", "politics"), Doc("words", "politics"),
                       Doc("words", "politics"), Doc("words", "business"),
                       Doc("words", "business"), Doc("words", "business") >>)] }

ModelTypes == {"naive_bayes", "logistic_regression"}

\* ------------------------------------------ DocumentClassificationSystem
LoadCategories(dd) ==
    IF dd.categories.present THEN dd.categories.rows ELSE FallbackCategories

LoadTrainingDocuments(dd) ==
    IF dd.training.present THEN dd.training.rows ELSE FallbackDocuments

\* {cat: idx for idx, cat in enumerate(categories)}: a repeated category
\* keeps its last index (labels are 0-based).
LabelEncoder(categories) ==
    [c \in Range(categories) |->
        (CHOOSE i \in DOMAIN categories :
            /\ categories[i] = c
            /\ \A j \in DOMAIN categories : categories[j] = c => j <= i) - 1]

\* {idx: cat for cat, idx in label_encoder.items()}
LabelDecoder(encoder) ==
    [i \in Range(encoder) |-> CHOOSE c \in DOMAIN encoder : encoder[c] = i]

\* A TfidfVectorizer / a model object, named by the train_model run that
\* created it; run 0 is Python's None.  A run is named by the least number
\* that names no object the classifier (or a handler at work on it) still
\* refers to, so that two objects of one classifier have the same name
\* exactly when the same run created them.  classes is the fitted model's
\* classes_: the labels present in the fitting split.
NoVectorizer == [run |-> 0, fitted |-> FALSE]
NoModel == [run |-> 0, fitted |-> FALSE, kind |-> "None", classes |-> {}]

FreshRun(used) == CHOOSE r \in 1 .. Cardinality(used) + 1 :
                      /\ r \notin used
                      /\ \A q \in 1 .. r - 1 : q \in used
RunsOf(c) == {c.vectorizer.run, c.model.run}

\* __init__
NewClassifier(model_type, dd) ==
    LET categories == LoadCategories(dd)
        encoder == LabelEncoder(categories)
    IN  [model_type |-> model_type,
         vectorizer |-> NoVectorizer,
         model |-> NoModel,
         is_trained |-> FALSE,
         categories |-> categories,
         label_encoder |-> encoder,
         label_decoder |-> LabelDecoder(encoder),
         training_documents |-> LoadTrainingDocuments(dd)]

\* A call's outcome: the object after it, the exception raised (None when
\* it returns) and the value returned (a record).
Outcome(c, exc, ret) == [c |-> c, exc |-> exc, ret |-> ret]
NoValue == [kind |-> "none"]

\* ---- train_model, by stages
Docs(c) == c.training_documents

\* labels = [self.label_encoder[doc["category"]] ...] raises KeyError for a
\* category that is not configured.
AllLabelled(c) ==
    \A i \in DOMAIN Docs(c) : Docs(c)[i].category \in DOMAIN c.label_encoder

Labels(c) == [i \in DOMAIN Docs(c) |-> c.label_encoder[Docs(c)[i].category]]

NumClasses(labels) == Cardinality(Range(labels))
CountOf(labels, l) == Cardinality({i \in DOMAIN labels : labels[i] = l})

CanStratify(labels) ==
    /\ \A l \in Range(labels) : CountOf(labels, l) >= 2
    /\ NumClasses(labels) > 1

\* Tiny by the number of classes alone.
FewerThanTwoPerClass(labels) == Len(labels) < NumClasses(labels) * 2

\* "If dataset is tiny, train on all data without a test split."
TinyDataset(labels) == Len(labels) < Max(6, NumClasses(labels) * 2)

\* The held-out size of a fixed fraction of one fifth.
FifthOf(labels) == CeilDiv(Len(labels), 5)

\* ceil(max(0.2, k / n) * n), the size train_test_split gives the held-out
\* set; in floating point it is this number for every n below 25.
TestCount(labels) == Max(CeilDiv(Len(labels), 5), NumClasses(labels))

\* What train_test_split(random_state=42, stratify=...) may return: the
\* shuffle is the library's, so any held-out set of the right size, and
\* when stratified one that takes from each class its share rounded down
\* or up.
Stratified(labels, test) ==
    \A l \in Range(labels) :
        LET inTest == Cardinality({i \in test : labels[i] = l})
            share == CountOf(labels, l) * Cardinality(test)
        IN  /\ inTest * Len(labels) > share - Len(labels)
            /\ inTest * Len(labels) < share + Len(labels)

NoSplit == [train |-> {}, test |-> {}]

Splits(c) ==
    LET labels == Labels(c)
        all == DOMAIN labels
    IN  IF TinyDataset(labels)
        THEN {[train |-> all, test |-> {}]}
        ELSE {[train |-> all \ test, test |-> test] :
                test \in {t \in SUBSET all :
                            /\ Cardinality(t) = TestCount(labels)
                            /\ CanStratify(labels) => Stratified(labels, t)}}

\* self.vectorizer = TfidfVectorizer(...)
AssignVectorizer(c, r) ==
    [c EXCEPT !.vectorizer = [run |-> r, fitted |-> FALSE]]

\* fit_transform raises ValueError ("empty vocabulary") when no fitting
\* text has a token.
EmptyVocabulary(c, split) == \A i \in split.train : Docs(c)[i].text = "stop"

FitVectorizer(c) == [c EXCEPT !.vectorizer.fitted = TRUE]

\* self.model = MultinomialNB() / LogisticRegression(...)
AssignModel(c, r) ==
    [c EXCEPT !.model =
        [run |-> r, fitted |-> FALSE,
         kind |-> IF c.model_type = "naive_bayes"
                  THEN "MultinomialNB" ELSE "LogisticRegression",
         classes |-> {}]]

TrainClasses(c, split) == {Labels(c)[i] : i \in split.train}

\* LogisticRegression.fit raises ValueError on fewer than two classes.
FitFails(c, split) ==
    /\ c.model.kind = "LogisticRegression"
    /\ Cardinality(TrainClasses(c, split)) < 2

FitModel(c, split) ==
    [c EXCEPT !.model.fitted = TRUE, !.model.classes = TrainClasses(c, split)]

\* y_pred: the model predicts labels it was fitted on.
Predictions(c, split) ==
    IF split.test = {} THEN {{}} ELSE (SUBSET c.model.classes) \ {{}}

\* classification_report(target_names=...) raises ValueError when the labels
\* in y_test and y_pred are not as many as the target names.
ReportFails(c, split, pred) ==
    /\ split.test # {}
    /\ Cardinality({Labels(c)[i] : i \in split.test} \cup pred)
          # Cardinality(DOMAIN c.label_decoder)

SetTrained(c) == [c EXCEPT !.is_trained = TRUE]

TrainingReport(c, split) ==
    [kind |-> "report",
     has_accuracy |-> split.test # {},
     classification_report |->
         IF split.test = {} THEN {} ELSE Range(c.label_decoder),
     model_type |-> c.model_type,
     training_size |-> Cardinality(split.train),
     test_size |-> Cardinality(split.test),
     categories |-> c.categories]

TrainOnSplit(c, r, split) ==
    LET c1 == AssignVectorizer(c, r)
        c2 == AssignModel(FitVectorizer(c1), r)
        c3 == FitModel(c2, split)
    IN  IF EmptyVocabulary(c, split) THEN {Outcome(c1, "ValueError", NoValue)}
        ELSE IF FitFails(c2, split) THEN {Outcome(c2, "ValueError", NoValue)}
        ELSE {IF ReportFails(c3, split, pred)
              THEN Outcome(c3, "ValueError", NoValue)
              ELSE Outcome(SetTrained(c3), None, TrainingReport(c3, split)) :
                pred \in Predictions(c3, split)}

\* A train_model that meets the unknown category only after it has made its
\* new vectorizer.
TrainModelLabelsLate(c, r) ==
    IF ~AllLabelled(c) THEN {Outcome(AssignVectorizer(c, r), "KeyError", NoValue)}
    ELSE UNION {TrainOnSplit(c, r, split) : split \in Splits(c)}

\* train_model: every outcome the call may have, r naming this run.
TrainModel(c, r) ==
    IF ~AllLabelled(c) THEN {Outcome(c, "KeyError", NoValue)}
    ELSE UNION {TrainOnSplit(c, r, split) : split \in Splits(c)}

\* ---- classify_text
\* predict_proba's array has one probability per class of classes_, in
\* ascending order of the labels: the class whose probability is at index i.
ClassAt(classes, i) ==
    CHOOSE l \in classes : Cardinality({k \in classes : k < l}) = i

\* classify_text past its guard: transform, predict, predict_proba, decode.
\* A probability is named by the class it is the probability of: confidence
\* is probabilities[prediction], and prob_dict maps label_decoder[i] to
\* probabilities[i].
ClassifyTrained(c, text) ==
    IF ~c.vectorizer.fitted \/ ~c.model.fitted
    THEN {Outcome(c, "NotFittedError", NoValue)}
    ELSE {IF prediction \notin DOMAIN c.label_decoder
          THEN Outcome(c, "KeyError", NoValue)
          ELSE IF prediction >= Cardinality(c.model.classes)
          THEN Outcome(c, "IndexError", NoValue)
          ELSE IF \E i \in 0 .. Cardinality(c.model.classes) - 1 :
                    i \notin DOMAIN c.label_decoder
          THEN Outcome(c, "KeyError", NoValue)
          ELSE Outcome(c, None,
                 [kind |-> "classification",
                  predicted_category |-> c.label_decoder[prediction],
                  confidence |-> ClassAt(c.model.classes, prediction),
                  probabilities |->
                      [cat \in {c.label_decoder[i] :
                                  i \in 0 .. Cardinality(c.model.classes) - 1} |->
                          ClassAt(c.model.classes,
                                  CHOOSE i \in 0 .. Cardinality(c.model.classes) - 1 :
                                      c.label_decoder[i] = cat)],
                  model_used |-> c.model_type]) :
            prediction \in c.model.classes}

\* A guard that asks whether a model object exists, not whether training
\* completed.
ClassifyTextIfModel(c, text) ==
    IF c.model.run = 0 THEN {Outcome(c, "ValueError", NoValue)}
    ELSE ClassifyTrained(c, text)

ClassifyText(c, text) ==
    IF ~c.is_trained THEN {Outcome(c, "ValueError", NoValue)}
    ELSE ClassifyTrained(c, text)

\* ---- get_model_info
GetInfo(c) ==
    Outcome(c, None,
        [kind |-> "info", model_type |-> c.model_type,
         is_trained |-> c.is_trained,
         total_documents |-> Len(c.training_documents),
         categories |-> c.categories])

\* ---- save_model / load_model
NoFile == [kind |-> "absent"]
\* A blob that records every model as a naive Bayes one.
BlobForgetsType(c) ==
    [kind |-> "blob", model |-> c.model, vectorizer |-> c.vectorizer,
     label_encoder |-> c.label_encoder, label_decoder |-> c.label_decoder,
     model_type |-> "naive_bayes", categories |-> c.categories]

Blob(c) ==
    [kind |-> "blob", model |-> c.model, vectorizer |-> c.vectorizer,
     label_encoder |-> c.label_encoder, label_decoder |-> c.label_decoder,
     model_type |-> c.model_type, categories |-> c.categories]

\* The outcome of save_model and the file it leaves at the path.
SaveModel(c, file) ==
    IF ~c.is_trained
    THEN [out |-> Outcome(c, "ValueError", NoValue), file |-> file]
    ELSE [out |-> Outcome(c, None, NoValue), file |-> Blob(c)]

\* A load that restores the model and the vectorizer only.
LoadModelOnly(c, file) ==
    IF file.kind = "absent" THEN Outcome(c, "FileNotFoundError", NoValue)
    ELSE Outcome([c EXCEPT !.model = file.model,
                           !.vectorizer = file.vectorizer,
                           !.model_type = file.model_type,
                           !.is_trained = TRUE],
                 None, NoValue)

LoadModel(c, file) ==
    IF file.kind = "absent" THEN Outcome(c, "FileNotFoundError", NoValue)
    ELSE Outcome([c EXCEPT !.model = file.model,
                           !.vectorizer = file.vectorizer,
                           !.label_encoder = file.label_encoder,
                           !.label_decoder = file.label_decoder,
                           !.model_type = file.model_type,
                           !.categories = file.categories,
                           !.is_trained = TRUE],
                 None, NoValue)

\* ------------------------------------------------------ JSON values
\* A value of a record: a string, a list, a number, None or an author dict.
Str(s) == [kind |-> "str", s |-> s, n |-> 0, items |-> << >>]
ListV(items) == [kind |-> "list", s |-> "", n |-> 0, items |-> items]
Num(n) == [kind |-> "num", s |-> "", n |-> n, items |-> << >>]
NoneV == [kind |-> "none", s |-> "", n |-> 0, items |-> << >>]
Dict(keys, name, profile) ==
    [kind |-> "dict", s |-> "", n |-> 0, items |-> << >>,
     keys |-> keys, name |-> name, profile |-> profile]

\* Python's truth value of v
Truthy(v) ==
    CASE v.kind = "none" -> FALSE
      [] v.kind = "str" -> v.s # ""
      [] v.kind = "list" -> v.items # << >>
      [] v.kind = "num" -> v.n # 0
      [] OTHER -> TRUE

\* r.get(k, default) and r[k] = v on a record (a function of its keys)
Get(r, k, default) == IF k \in DOMAIN r THEN r[k] ELSE default
Put(r, k, v) == [x \in DOMAIN r \cup {k} |-> IF x = k THEN v ELSE r[x]]

\* str.strip() and str.split(", ") on the author strings of the model
StripStr(s) ==
    CASE s = " " -> ""
      [] s = " Bob " -> "Bob"
      [] OTHER -> s
SplitComma(s) ==
    CASE s = "Ann, Bob" -> <<"Ann", "Bob">>
      [] OTHER -> <<s>>

\* str(x) of a list element
StrOf(x) == IF x.kind = "str" THEN x.s ELSE "{...}"

\* ------------------------------------------------------- RecordShaper
RECURSIVE WrapAuthors(_)
WrapAuthors(items) ==
    IF items = << >> THEN << >>
    ELSE LET name == StripStr(StrOf(Head(items)))
         IN  (IF name # "" THEN <<Dict({"name", "profile"}, name, "None")>>
              ELSE << >>) \o WrapAuthors(Tail(items))

\* _ensure_list_of_authors
EnsureListOfAuthors(v) ==
    IF ~Truthy(v) THEN ListV(<< >>)
    ELSE IF v.kind = "list"
    THEN IF v.items[1].kind = "dict" /\ "name" \in v.items[1].keys
         THEN v
         ELSE ListV(WrapAuthors(v.items))
    ELSE ListV(<<Dict({"name", "profile"}, StripStr(StrOf(v)), "None")>>)

\* _normalize_record
NormalizeRecord(r) ==
    LET date == Get(r, "date", NoneV)
        published == Get(r, "published_date", NoneV)
        date_val == IF Truthy(date) THEN date
                    ELSE IF Truthy(published) THEN published ELSE Str("")
        abstract == Get(r, "abstract", Str(""))
    IN  Put(Put(Put(r, "published_date", date_val),
                "authors", EnsureListOfAuthors(Get(r, "authors", ListV(<< >>)))),
            "abstract", IF Truthy(abstract) THEN abstract ELSE Str(""))

\* --------------------------------------------------------- query text
\* A query is a sequence of characters.
MaxQueryLen == 2
QueryChars == {" ", "t"}

RECURSIVE SeqsUpTo(_, _)
SeqsUpTo(S, n) ==
    IF n = 0 THEN {<< >>}
    ELSE LET shorter == SeqsUpTo(S, n - 1)
         IN  shorter \cup {Append(q, ch) : q \in shorter, ch \in S}

Queries == SeqsUpTo(QueryChars, MaxQueryLen)

\* str.lower()
LowerChar(ch) == IF ch = "T" THEN "t" ELSE IF ch = "G" THEN "g" ELSE ch
Lower(q) == [i \in DOMAIN q |-> LowerChar(q[i])]

\* str.strip()
RECURSIVE LStrip(_)
LStrip(q) == IF q # << >> /\ Head(q) = " " THEN LStrip(Tail(q)) ELSE q
RECURSIVE RStrip(_)
RStrip(q) ==
    IF q # << >> /\ q[Len(q)] = " " THEN RStrip(SubSeq(q, 1, Len(q) - 1)) ELSE q
Strip(q) == RStrip(LStrip(q))

\* A test for the empty string alone.
Empty(q) == q = << >>
\* not query.strip()
Blank(q) == Strip(q) = << >>

\* The characters of the texts of the model, by class.
Letters == {"a", "g", "s", "t"}
Digits == {"2"}

\* re.sub(r"[^...]", " ", text): every character outside the kept class
\* (and whitespace) becomes a space.
Keep(q, chars) == [i \in DOMAIN q |-> IF q[i] \in chars THEN q[i] ELSE " "]

\* nltk.word_tokenize on text that holds only letters, digits and spaces:
\* the maximal runs of letters and digits.
RECURSIVE Tokenize(_, _)
Tokenize(q, word) ==
    IF q = << >> THEN (IF word = << >> THEN << >> ELSE <<word>>)
    ELSE IF Head(q) = " "
    THEN (IF word = << >> THEN << >> ELSE <<word>>) \o Tokenize(Tail(q), << >>)
    ELSE Tokenize(Tail(q), Append(word, Head(q)))

\* STOP: of the words the characters of the model spell, "a", "as", "at",
\* "s" and "t" are NLTK stopwords.
STOP == {<<"t">>, <<"a">>, <<"s">>, <<"a", "s">>, <<"a", "t">>}

\* STEM.stem: of the Porter stemmer's rules, the words the characters of the
\* model spell meet those of step 1a alone: a word of one or two characters
\* is returned as it is, a final "ss" stays, any other final "s" is dropped.
Stem(token) ==
    IF Len(token) <= 2 THEN token
    ELSE IF token[Len(token)] = "s" /\ token[Len(token) - 1] # "s"
    THEN SubSeq(token, 1, Len(token) - 1)
    ELSE token

\* The ranker's normalizer with the classifier's length threshold.
PreprocessTextLong(q) ==
    LET tokens == Tokenize(Keep(Lower(q), Letters \cup Digits), << >>)
        kept == SelectSeq(tokens, LAMBDA t : t \notin STOP /\ Len(t) > 2)
    IN  [i \in DOMAIN kept |-> Stem(kept[i])]

\* preprocess_text of search.py: the list that " ".join(...) joins
PreprocessText(q) ==
    LET tokens == Tokenize(Keep(Lower(q), Letters \cup Digits), << >>)
        kept == SelectSeq(tokens, LAMBDA t : t \notin STOP /\ Len(t) > 1)
    IN  [i \in DOMAIN kept |-> Stem(kept[i])]

\* DocumentClassificationSystem.preprocess_text: the list that
\* " ".join(...) joins
ClassifierPreprocessText(q) ==
    LET tokens == Tokenize(Keep(Lower(q), Letters), << >>)
        kept == SelectSeq(tokens, LAMBDA t : t \notin STOP /\ Len(t) > 2)
    IN  [i \in DOMAIN kept |-> Stem(kept[i])]

\* " ".join(tokens)
RECURSIVE Join(_)
Join(tokens) ==
    IF tokens = << >> THEN << >>
    ELSE IF Len(tokens) = 1 THEN tokens[1]
    ELSE tokens[1] \o <<" ">> \o Join(Tail(tokens))

\* ------------------------------------------------------- SearchEngine
\* Similarities are kept in thousandths; the values of the model are not
\* halfway between two hundredths, where round() follows the binary value.
SimValues == {0, 9, 10, 14, 500}

\* The term of the fitted vocabulary the query characters can spell.
IndexedTerm == <<"t", "t">>

\* self.publications
Normalized == [i \in DOMAIN publications |-> NormalizeRecord(publications[i].rec)]

\* vectorizer.transform and cosine_similarity: a query without the indexed
\* term has the zero vector, and similarity 0 to every document.
Sims(q) ==
    IF IndexedTerm \in Range(PreprocessText(q))
    THEN [i \in DOMAIN publications |-> publications[i].sim]
    ELSE [i \in DOMAIN publications |-> 0]

RECURSIVE Ascending(_)
Ascending(values) ==
    IF values = {} THEN << >>
    ELSE LET least == CHOOSE v \in values : \A w \in values : v <= w
         IN  <<least>> \o Ascending(values \ {least})

Reverse(seq) == [i \in DOMAIN seq |-> seq[Len(seq) + 1 - i]]

RECURSIVE Concat(_)
Concat(seqs) == IF seqs = << >> THEN << >> ELSE Head(seqs) \o Concat(Tail(seqs))

\* sims.argsort(): the indices by ascending similarity.  numpy's default
\* sort is not stable: equal similarities come in corpus order ("stable",
\* as for short arrays) or in another order of the build's ("reversed").
Argsort(sims) ==
    LET indices == [i \in DOMAIN sims |-> i]
        group(v) == SelectSeq(indices, LAMBDA i : sims[i] = v)
        values == Ascending(Range(sims))
    IN  Concat([k \in DOMAIN values |->
                  IF tieOrder = "stable" THEN group(values[k])
                  ELSE Reverse(group(values[k]))])

\* "top 50": the 50 of [-50:]
TopK == 50
\* seq[-k:], the last k
LastK(seq, k) == SubSeq(seq, Max(1, Len(seq) - k + 1), Len(seq))

\* The threshold 0.01, in thousandths
Threshold == 10
\* A test that drops only the documents without any similarity.
SkipsZero(score) == score <= 0
\* if score < 0.01: continue
Skips(score) == score < Threshold

\* round(score, 2), in thousandths
Round2(score) == ((score + 5) \div 10) * 10

ReturnFields == {"title", "link", "authors", "published_date", "abstract", "score"}

\* formatted_item = {k: item.get(k, "") for k in return_fields}
FormatItem(item) == [k \in ReturnFields |-> Get(item, k, Str(""))]

\* The documents search returns, as corpus positions, in the order returned.
SearchHits(q) ==
    IF Blank(q) THEN << >>
    ELSE LET sims == Sims(q)
             top_idx == Reverse(LastK(Argsort(sims), TopK))
         IN  SelectSeq(top_idx, LAMBDA i : ~Skips(sims[i]))

\* What of the engine a call of search reads
SearchUses(q) ==
    IF Blank(q) THEN {} ELSE {"vectorizer", "tfidf_matrix", "publications"}

\* SearchEngine.search
Search(q) ==
    LET hits == SearchHits(q)
        sims == Sims(q)
    IN  [k \in DOMAIN hits |->
            FormatItem(Put(Normalized[hits[k]], "score", Num(Round2(sims[hits[k]]))))]

\* ------------------------------------------------- the classifier registry
\* The module's state as one value, so that a function of the module is an
\* operator from worlds to worlds.
World == [heap |-> heap, registry |-> registry, counts |-> counts]

\* A registration test that also asks for a trained instance.
RegisteredAndTrained(w, m) ==
    /\ w.registry[m] # 0
    /\ w.heap[w.registry[m]].is_trained

\* model_type in _classifiers
Registered(w, m) == w.registry[m] # 0

\* _get_classifier run without interruption: the worlds it may leave and the
\* object it returns.  An exception of the auto-training is swallowed.
GetClassifier(w, m) ==
    IF Registered(w, m)
    THEN {[w |-> [w EXCEPT !.counts[m].reused = TRUE], obj |-> w.registry[m]]}
    ELSE LET o == Len(w.heap) + 1
         IN  {[w |-> [heap |-> Append(w.heap, out.c),
                      registry |-> [w.registry EXCEPT ![m] = o],
                      counts |-> [w.counts EXCEPT ![m].constructed = @ + 1,
                                                  ![m].autoTrained = @ + 1]],
               obj |-> o] :
                out \in TrainModel(NewClassifier(m, dataDir), 1)}

\* classify_document
ClassifyDocument(w, text, m) ==
    UNION {{[w |-> g.w, obj |-> g.obj, exc |-> out.exc, ret |-> out.ret] :
               out \in ClassifyText(g.w.heap[g.obj], text)} :
           g \in GetClassifier(w, m)}

\* get_model_info (the module's function)
GetModelInfo(w, m) ==
    {[w |-> g.w, obj |-> g.obj, exc |-> None, ret |-> GetInfo(g.w.heap[g.obj]).ret] :
        g \in GetClassifier(w, m)}

\* One round of train_models' loop.
TrainOne(w, m) ==
    UNION {{[w |-> [g.w EXCEPT !.heap[g.obj] = out.c],
             obj |-> g.obj, exc |-> out.exc, ret |-> out.ret] :
               out \in TrainModel(g.w.heap[g.obj],
                                  FreshRun(RunsOf(g.w.heap[g.obj])))} :
           g \in GetClassifier(w, m)}

\* train_models: the loop ends at the first train_model that raises.
TrainModels(w) ==
    UNION {IF a.exc # None
           THEN {[w |-> a.w, obj |-> a.obj, exc |-> a.exc,
                  ret |-> [kind |-> "results", reported |-> {}]]}
           ELSE {[w |-> b.w, obj |-> b.obj, exc |-> b.exc,
                  ret |-> [kind |-> "results",
                           reported |-> IF b.exc = None
                                        THEN {"naive_bayes", "logistic_regression"}
                                        ELSE {}]] :
                   b \in TrainOne(a.w, "logistic_regression")} :
           a \in TrainOne(w, "naive_bayes")}

\* ------------------------------------------------------------ the calls
\* The server's classifiers are those of the registry; a call is a request
\* to one of the handlers or a method called on a registered classifier.
Texts == {"blank", "words"}
Paths == {"model.pkl"}

Call(op, arg, obj, exc, ret) ==
    [op |-> op, arg |-> arg, obj |-> obj, exc |-> exc, ret |-> ret]

SetWorld(w) ==
    /\ heap' = w.heap
    /\ registry' = w.registry
    /\ counts' = w.counts

CallTrainModel(o) ==
    /\ \E out \in TrainModel(heap[o], FreshRun(RunsOf(heap[o]))) :
          /\ heap' = [heap EXCEPT ![o] = out.c]
          /\ last' = Call("train_model", "", o, out.exc, out.ret)
    /\ UNCHANGED <<dataDir, seeded, registry, files, threads, requests, counts, searchVars>>

CallClassifyText(o, text) ==
    /\ \E out \in ClassifyText(heap[o], text) :
          /\ heap' = [heap EXCEPT ![o] = out.c]
          /\ last' = Call("classify_text", text, o, out.exc, out.ret)
    /\ UNCHANGED <<dataDir, seeded, registry, files, threads, requests, counts, searchVars>>

CallGetModelInfo(o) ==
    /\ last' = Call("get_model_info", "", o, None, GetInfo(heap[o]).ret)
    /\ UNCHANGED <<classifierVars, searchVars>>

CallSaveModel(o, path) ==
    /\ LET s == SaveModel(heap[o], files[path])
       IN  /\ heap' = [heap EXCEPT ![o] = s.out.c]
           /\ files' = [files EXCEPT ![path] = s.file]
           /\ last' = Call("save_model", path, o, s.out.exc, s.out.ret)
    /\ UNCHANGED <<dataDir, seeded, registry, threads, requests, counts, searchVars>>

CallLoadModel(o, path) ==
    /\ LET out == LoadModel(heap[o], files[path])
       IN  /\ heap' = [heap EXCEPT ![o] = out.c]
           /\ last' = Call("load_model", path, o, out.exc, out.ret)
    /\ UNCHANGED <<dataDir, seeded, registry, files, threads, requests, counts, searchVars>>

\* POST /classify
HandleClassify(text, m) ==
    /\ IF text = "blank"
       THEN /\ last' = Call("/classify", m, 0, "TextRequired", NoValue)
            /\ UNCHANGED <<heap, registry, counts>>
       ELSE \E r \in ClassifyDocument(World, text, m) :
              /\ SetWorld(r.w)
              /\ last' = Call("/classify", m, r.obj, r.exc, r.ret)
    /\ UNCHANGED <<dataDir, seeded, files, threads, requests, searchVars>>

\* GET /model-info
HandleModelInfo(m) ==
    /\ \E r \in GetModelInfo(World, m) :
          /\ SetWorld(r.w)
          /\ last' = Call("/model-info", m, r.obj, r.exc, r.ret)
    /\ UNCHANGED <<dataDir, seeded, files, threads, requests, searchVars>>

\* POST /train-models
HandleTrainModels ==
    /\ \E r \in TrainModels(World) :
          /\ SetWorld(r.w)
          /\ last' = Call("/train-models", "", r.obj, r.exc, r.ret)
    /\ UNCHANGED <<dataDir, seeded, files, threads, requests, searchVars>>

NoCall == Call("", "", 0, None, NoValue)

SearchIdle ==
    /\ publications = << >>
    /\ tieOrder = "stable"
    /\ cache = << >>
    /\ now = 0
    /\ cacheMax = 0

\* A model file left at the path by an earlier server process, which ran on
\* the built-in categories and training documents.
SavedEarlier ==
    LET c == NewClassifier("naive_bayes", [categories |-> NoSuchFile,
                                           training |-> NoSuchFile])
    IN  Blob((CHOOSE out \in TrainModel(c, 1) : out.exc = None).c)

InitClassifier ==
    /\ dataDir \in DataDirs
    /\ seeded = NoSplit
    /\ heap = << >>
    /\ registry = [m \in ModelTypes |-> 0]
    /\ files \in [Paths -> {NoFile, SavedEarlier}]
    /\ threads = << >>
    /\ requests = 0
    /\ counts = [m \in ModelTypes |->
                    [constructed |-> 0, autoTrained |-> 0, reused |-> FALSE]]
    /\ last = NoCall
    /\ SearchIdle

NextClassifier ==
    \/ \E o \in DOMAIN heap : CallTrainModel(o)
    \/ \E o \in DOMAIN heap, text \in Texts : CallClassifyText(o, text)
    \/ \E o \in DOMAIN heap : CallGetModelInfo(o)
    \/ \E o \in DOMAIN heap, path \in Paths : CallSaveModel(o, path)
    \/ \E o \in DOMAIN heap, path \in Paths : CallLoadModel(o, path)
    \/ \E text \in Texts, m \in ModelTypes : HandleClassify(text, m)
    \/ \E m \in ModelTypes : HandleModelInfo(m)
    \/ HandleTrainModels

\* The classifier and its registry, one call at a time.
SpecClassifier == InitClassifier /\ [][NextClassifier]_vars

\* ------------------------------------------- concurrent request handlers
\* FastAPI runs the handlers (plain def functions) on a thread pool, so the
\* functions of classification_ml.py interleave between their statements.
\* A handler in flight: where it is (pc), the request (op, m, text) and its
\* locals (the classifier it holds, whether it runs the auto-training of
\* _get_classifier, its training run and split, the vectorizer it read).
MaxThreads == 2
MaxRequests == 3
Threads == 1 .. MaxThreads

Idle ==
    [pc |-> "idle", op |-> "", m |-> "", text |-> "", obj |-> 0,
     auto |-> FALSE, run |-> 0, split |-> NoSplit, vec |-> NoVectorizer]

\* Runs that name an object of classifier o: its own and those of the
\* handlers training it.
RunsInUse(o) ==
    RunsOf(heap[o]) \cup {threads[u].run : u \in {v \in Threads : threads[v].obj = o}}

\* The handler returns (or its exception reaches the handler's except).
Finish(t, exc, ret) ==
    /\ last' = Call(threads[t].op, threads[t].m, threads[t].obj, exc, ret)
    /\ threads' = [threads EXCEPT ![t] = Idle]

Goto(t, pc) == threads' = [threads EXCEPT ![t].pc = pc]

\* A request arrives.
Start(t, op, m) ==
    /\ threads[t].pc = "idle"
    /\ requests < MaxRequests
    /\ requests' = requests + 1
    /\ threads' = [threads EXCEPT ![t] =
            [Idle EXCEPT !.pc = "check", !.op = op, !.text = "words",
                         !.m = IF op = "/train-models" THEN "naive_bayes" ELSE m]]
    /\ UNCHANGED <<dataDir, seeded, heap, registry, files, counts, searchVars, last>>

\* _get_classifier: if model_type not in _classifiers
GcCheck(t) ==
    /\ threads[t].pc = "check"
    /\ IF Registered(World, threads[t].m)
       THEN /\ Goto(t, "return")
            /\ counts' = [counts EXCEPT ![threads[t].m].reused = TRUE]
       ELSE /\ Goto(t, "construct")
            /\ UNCHANGED counts
    /\ UNCHANGED <<dataDir, seeded, requests, heap, registry, files, searchVars, last>>

\* DocumentClassificationSystem(model_type=model_type)
GcConstruct(t) ==
    /\ threads[t].pc = "construct"
    /\ Len(heap) < MaxObjs
    /\ heap' = Append(heap, NewClassifier(threads[t].m, dataDir))
    /\ counts' = [counts EXCEPT ![threads[t].m].constructed = @ + 1]
    /\ threads' = [threads EXCEPT ![t].pc = "store", ![t].obj = Len(heap) + 1]
    /\ UNCHANGED <<dataDir, seeded, requests, registry, files, searchVars, last>>

\* _classifiers[model_type] = ...
GcStore(t) ==
    /\ threads[t].pc = "store"
    /\ registry' = [registry EXCEPT ![threads[t].m] = threads[t].obj]
    /\ Goto(t, "autotrain")
    /\ UNCHANGED <<dataDir, seeded, requests, heap, files, counts, searchVars, last>>

\* train_model up to the split (lines 106-127), on classifier o.
Prepare(t, o, auto) ==
    IF ~AllLabelled(heap[o])
    THEN IF auto
         THEN /\ threads' = [threads EXCEPT ![t].pc = "return", ![t].obj = o]
              /\ UNCHANGED last
         ELSE Finish(t, "KeyError", NoValue)
    ELSE /\ \E split \in Splits(heap[o]) :
              threads' = [threads EXCEPT ![t].pc = "t_vec_assign", ![t].obj = o,
                                         ![t].auto = auto, ![t].split = split]
         /\ UNCHANGED last

\* _classifiers[model_type].train_model(): the registry is read again.
GcAutoTrain(t) ==
    /\ threads[t].pc = "autotrain"
    /\ counts' = [counts EXCEPT ![threads[t].m].autoTrained = @ + 1]
    /\ Prepare(t, registry[threads[t].m], TRUE)
    /\ UNCHANGED <<dataDir, seeded, requests, heap, registry, files, searchVars>>

\* An exception in train_model: swallowed by _get_classifier, raised to the
\* handler by train_models.
Raise(t, exc) ==
    IF threads[t].auto
    THEN /\ threads' = [threads EXCEPT ![t].pc = "return", ![t].auto = FALSE,
                                       ![t].run = 0, ![t].split = NoSplit]
         /\ UNCHANGED last
    ELSE Finish(t, exc, NoValue)

\* self.vectorizer = TfidfVectorizer(...)
TVecAssign(t) ==
    /\ threads[t].pc = "t_vec_assign"
    /\ LET o == threads[t].obj
           r == FreshRun(RunsInUse(o))
       IN  /\ heap' = [heap EXCEPT ![o] = AssignVectorizer(@, r)]
           /\ threads' = [threads EXCEPT ![t].pc = "t_vec_fit", ![t].run = r]
    /\ UNCHANGED <<dataDir, seeded, requests, registry, files, counts, searchVars, last>>

\* self.vectorizer.fit_transform(X_train): on the vectorizer the classifier
\* holds now.
TVecFit(t) ==
    /\ threads[t].pc = "t_vec_fit"
    /\ LET o == threads[t].obj
       IN  IF EmptyVocabulary(heap[o], threads[t].split)
           THEN Raise(t, "ValueError") /\ UNCHANGED heap
           ELSE /\ heap' = [heap EXCEPT ![o] = FitVectorizer(@)]
                /\ Goto(t, "t_model_assign")
                /\ UNCHANGED last
    /\ UNCHANGED <<dataDir, seeded, requests, registry, files, counts, searchVars>>

\* self.model = MultinomialNB() / LogisticRegression(...)
TModelAssign(t) ==
    /\ threads[t].pc = "t_model_assign"
    /\ heap' = [heap EXCEPT ![threads[t].obj] = AssignModel(@, threads[t].run)]
    /\ Goto(t, "t_model_fit")
    /\ UNCHANGED <<dataDir, seeded, requests, registry, files, counts, searchVars, last>>

\* self.model.fit(X_train_vec, y_train): on the model the classifier holds now.
TModelFit(t) ==
    /\ threads[t].pc = "t_model_fit"
    /\ LET o == threads[t].obj
       IN  IF FitFails(heap[o], threads[t].split)
           THEN Raise(t, "ValueError") /\ UNCHANGED heap
           ELSE /\ heap' = [heap EXCEPT ![o] = FitModel(@, threads[t].split)]
                /\ Goto(t, "t_report")
                /\ UNCHANGED last
    /\ UNCHANGED <<dataDir, seeded, requests, registry, files, counts, searchVars>>

\* The held-out report, self.is_trained = True and the return.
TReport(t) ==
    /\ threads[t].pc = "t_report"
    /\ LET o == threads[t].obj
           c == heap[o]
           split == threads[t].split
       IN  IF split.test # {} /\ (~c.vectorizer.fitted \/ ~c.model.fitted)
           THEN Raise(t, "NotFittedError") /\ UNCHANGED heap
           ELSE \E pred \in Predictions(c, split) :
                  IF ReportFails(c, split, pred)
                  THEN Raise(t, "ValueError") /\ UNCHANGED heap
                  ELSE /\ heap' = [heap EXCEPT ![o] = SetTrained(@)]
                       /\ IF threads[t].auto
                          THEN /\ threads' = [threads EXCEPT
                                      ![t].pc = "return", ![t].auto = FALSE,
                                      ![t].run = 0, ![t].split = NoSplit]
                               /\ UNCHANGED last
                          ELSE IF threads[t].m = "naive_bayes"
                          THEN /\ threads' = [threads EXCEPT
                                      ![t].pc = "check", ![t].obj = 0,
                                      ![t].m = "logistic_regression",
                                      ![t].run = 0, ![t].split = NoSplit]
                               /\ UNCHANGED last
                          ELSE Finish(t, None,
                                 [kind |-> "results",
                                  reported |-> {"naive_bayes", "logistic_regression"}])
    /\ UNCHANGED <<dataDir, seeded, requests, registry, files, counts, searchVars>>

\* return _classifiers[model_type], and what the caller does with it.
GcReturn(t) ==
    /\ threads[t].pc = "return"
    /\ LET o == registry[threads[t].m]
       IN  CASE threads[t].op = "/classify" ->
                  /\ threads' = [threads EXCEPT ![t].pc = "c_guard", ![t].obj = o]
                  /\ UNCHANGED last
             [] threads[t].op = "/model-info" ->
                  /\ last' = Call("/model-info", threads[t].m, o, None, GetInfo(heap[o]).ret)
                  /\ threads' = [threads EXCEPT ![t] = Idle]
             [] OTHER ->
                  Prepare(t, o, FALSE)
    /\ UNCHANGED <<dataDir, seeded, requests, heap, registry, files, counts, searchVars>>

\* classify_text: if not self.is_trained: raise ValueError
CGuard(t) ==
    /\ threads[t].pc = "c_guard"
    /\ IF ~heap[threads[t].obj].is_trained
       THEN Finish(t, "ValueError", NoValue)
       ELSE Goto(t, "c_transform") /\ UNCHANGED last
    /\ UNCHANGED <<dataDir, seeded, requests, heap, registry, files, counts, searchVars>>

\* text_vec = self.vectorizer.transform([processed_text])
CTransform(t) ==
    /\ threads[t].pc = "c_transform"
    /\ LET vec == heap[threads[t].obj].vectorizer
       IN  IF ~vec.fitted
           THEN Finish(t, "NotFittedError", NoValue)
           ELSE /\ threads' = [threads EXCEPT ![t].pc = "c_predict", ![t].vec = vec]
                /\ UNCHANGED last
    /\ UNCHANGED <<dataDir, seeded, requests, heap, registry, files, counts, searchVars>>

\* self.model.predict / predict_proba and the decoding of the result
CPredict(t) ==
    /\ threads[t].pc = "c_predict"
    /\ \E out \in ClassifyTrained(
                    [heap[threads[t].obj] EXCEPT !.vectorizer = threads[t].vec],
                    threads[t].text) :
          Finish(t, out.exc, out.ret)
    /\ UNCHANGED <<dataDir, seeded, requests, heap, registry, files, counts, searchVars>>

InitConcurrent ==
    /\ dataDir \in {dd \in DataDirs : Len(LoadTrainingDocuments(dd)) < 6}
    /\ seeded = NoSplit
    /\ heap = << >>
    /\ registry = [m \in ModelTypes |-> 0]
    /\ files = [p \in Paths |-> NoFile]
    /\ threads = [t \in Threads |-> Idle]
    /\ requests = 0
    /\ counts = [m \in ModelTypes |->
                    [constructed |-> 0, autoTrained |-> 0, reused |-> FALSE]]
    /\ last = NoCall
    /\ SearchIdle

NextConcurrent ==
    \E t \in Threads :
        \/ \E op \in {"/classify", "/model-info", "/train-models"}, m \in ModelTypes :
              Start(t, op, m)
        \/ GcCheck(t)
        \/ GcConstruct(t)
        \/ GcStore(t)
        \/ GcAutoTrain(t)
        \/ TVecAssign(t)
        \/ TVecFit(t)
        \/ TModelAssign(t)
        \/ TModelFit(t)
        \/ TReport(t)
        \/ GcReturn(t)
        \/ CGuard(t)
        \/ CTransform(t)
        \/ CPredict(t)

\* The classifier registry under concurrent request handlers.
SpecConcurrent == InitConcurrent /\ [][NextConcurrent]_vars

\* ------------------------------------------------- the search engine alone
\* A corpus is given by blocks of consecutive documents of one similarity
\* to the indexed term.
MaxBlocks == 2
BlockSizes == {1, 49}
Blocks == [sim : SimValues, size : BlockSizes]

Pub(rec, sim) == [rec |-> rec, sim |-> sim]
PlainRecord == [title |-> Str("paper"), link |-> Str("http://paper")]

RECURSIVE Corpus(_)
Corpus(blocks) ==
    IF blocks = << >> THEN << >>
    ELSE [i \in 1..Head(blocks).size |-> Pub(PlainRecord, Head(blocks).sim)]
         \o Corpus(Tail(blocks))

EngineCorpora == {Corpus(blocks) : blocks \in SeqsUpTo(Blocks, MaxBlocks) \ {<< >>}}

ClassifierIdle ==
    /\ dataDir = [categories |-> NoSuchFile, training |-> NoSuchFile]
    /\ seeded = NoSplit
    /\ heap = << >>
    /\ registry = [m \in ModelTypes |-> 0]
    /\ files = [p \in Paths |-> NoFile]
    /\ threads = << >>
    /\ requests = 0
    /\ counts = [m \in ModelTypes |->
                    [constructed |-> 0, autoTrained |-> 0, reused |-> FALSE]]

\* search_engine.search(q), called directly
CallSearch(q) ==
    /\ last' = Call("search", q, 0, None,
                    [hits |-> SearchHits(q), results |-> Search(q),
                     uses |-> SearchUses(q)])
    /\ UNCHANGED <<classifierVars, searchVars>>

InitEngine ==
    /\ publications \in EngineCorpora
    /\ tieOrder \in {"stable", "reversed"}
    /\ cache = << >>
    /\ now = 0
    /\ cacheMax = 0
    /\ last = NoCall
    /\ ClassifierIdle

NextEngine == \E q \in Queries : CallSearch(q)

\* SearchEngine.search on every corpus of the blocks.
SpecEngine == InitEngine /\ [][NextEngine]_vars

\* ------------------------------------------------------ the /search handler
\* The configured time to live, in ticks of the clock of the model.
SEARCH_CACHE_TTL == 1
MaxTime == 2
MaxCacheMax == 2

\* key = query.strip().lower()
CacheKey(q) == Lower(Strip(q))

\* _search_cache is a dict: its entries in insertion order
Entry(key, ts, value) == [key |-> key, ts |-> ts, value |-> value]
Keys(c) == {c[i].key : i \in DOMAIN c}
Find(c, key) == CHOOSE i \in DOMAIN c : c[i].key = key
Pop(c, key) == SelectSeq(c, LAMBDA e : e.key # key)

\* An expiry test that keeps an entry one tick longer.
ExpiredLate(age) == age > SEARCH_CACHE_TTL + 1
\* time.time() - entry["ts"] > SEARCH_CACHE_TTL
Expired(age) == age > SEARCH_CACHE_TTL

\* _cache_get at time t: the cache it leaves and what it returns
CacheGet(c, key, t) ==
    IF key \notin Keys(c)
    THEN [cache |-> c, hit |-> FALSE, value |-> << >>]
    ELSE IF Expired(t - c[Find(c, key)].ts)
    THEN [cache |-> Pop(c, key), hit |-> FALSE, value |-> << >>]
    ELSE [cache |-> c, hit |-> TRUE, value |-> c[Find(c, key)].value]

\* The entry evicted is the one stored last.
Newest(c) == CHOOSE i \in DOMAIN c : \A j \in DOMAIN c : c[j].ts <= c[i].ts
\* min(_search_cache.items(), key=ts): the first entry of the least ts
Oldest(c) ==
    CHOOSE i \in DOMAIN c :
        /\ \A j \in DOMAIN c : c[i].ts <= c[j].ts
        /\ \A j \in 1..(i - 1) : c[j].ts > c[i].ts

\* _search_cache[key] = entry
Store(c, e) ==
    IF e.key \in Keys(c) THEN [c EXCEPT ![Find(c, e.key)] = e] ELSE Append(c, e)

\* _cache_set at time t with SEARCH_CACHE_MAX = max
CacheSet(c, key, value, t, max) ==
    IF Len(c) >= max
    THEN IF c = << >>
         THEN [cache |-> c, exc |-> "ValueError"]
         ELSE [cache |-> Store(Pop(c, c[Oldest(c)].key), Entry(key, t, value)),
               exc |-> None]
    ELSE [cache |-> Store(c, Entry(key, t, value)), exc |-> None]

\* A record formatted without a score of its own.
UnscoredItem(pub) == FormatItem(pub)
\* The blank-query branch, for one record
BlankItem(pub) ==
    LET item == Put(pub, "score", Num(0))
        authors == Get(item, "authors", ListV(<< >>))
        split == SplitComma(authors.s)
        listed ==
            IF authors.kind = "list" THEN item
            ELSE Put(item, "authors",
                     IF Truthy(authors)
                     THEN ListV([k \in DOMAIN split |-> Str(split[k])])
                     ELSE ListV(<< >>))
    IN  FormatItem(listed)

\* results[a:b]
PySlice(seq, a, b) ==
    LET n == Len(seq)
        Clamp(i) == IF i < 0 THEN Max(n + i, 0) ELSE Min(i, n)
    IN  SubSeq(seq, Clamp(a) + 1, Clamp(b))

\* a // b
FloorDiv(a, b) == IF b > 0 THEN a \div b ELSE (0 - a) \div (0 - b)

\* The pagination and the response
Respond(results, page, size) ==
    IF size = 0
    THEN [exc |-> "ZeroDivisionError", response |-> [error |-> "division by zero"]]
    ELSE LET start_idx == (page - 1) * size
             end_idx == start_idx + size
         IN  [exc |-> None,
              response |-> [results |-> PySlice(results, start_idx, end_idx),
                            total |-> Len(results),
                            page |-> page,
                            size |-> size,
                            total_pages |-> FloorDiv(Len(results) + size - 1, size)]]

Request(query, page, size) == [query |-> query, page |-> page, size |-> size]

\* What a request leaves in last: the results list of the handler, the
\* response, and what it did on the way: the functions of the cache and
\* the engine it called, whether _cache_get dropped an expired entry, and
\* the keys _cache_set evicted.
Trace(calls, expired, evicted) ==
    [calls |-> calls, expired |-> expired, evicted |-> evicted]
Served(req, results, trace, r) ==
    Call("/search", req, 0, r.exc,
         [results |-> results, response |-> r.response, calls |-> trace.calls,
          expired |-> trace.expired, evicted |-> trace.evicted])

\* GET /search with a blank query
HandleSearchBlank(query, page, size) ==
    /\ Blank(query)
    /\ LET results == [i \in DOMAIN publications |-> BlankItem(publications[i].rec)]
       IN  last' = Served(Request(query, page, size), results,
                          Trace(<< >>, FALSE, {}), Respond(results, page, size))
    /\ UNCHANGED <<classifierVars, searchVars>>

\* GET /search with a query: the clock may move on between the lookup and
\* the insertion.
HandleSearchQuery(query, page, size) ==
    /\ ~Blank(query)
    /\ LET key == CacheKey(query)
           got == CacheGet(cache, key, now)
       IN  IF got.hit
           THEN /\ cache' = got.cache
                /\ now' = now
                /\ last' = Served(Request(query, page, size), got.value,
                                  Trace(<<"_cache_get">>, FALSE, {}),
                                  Respond(got.value, page, size))
           ELSE \E t \in now..Min(now + 1, MaxTime) :
                  LET results == Search(query)
                      set == CacheSet(got.cache, key, results, t, cacheMax)
                      trace == Trace(<<"_cache_get", "search", "_cache_set">>,
                                     got.cache # cache,
                                     Keys(got.cache) \ Keys(set.cache))
                  IN  /\ cache' = set.cache
                      /\ now' = t
                      /\ last' =
                            IF set.exc # None
                            THEN Served(Request(query, page, size), results, trace,
                                        [exc |-> set.exc,
                                         response |-> [error |-> "min() arg is an empty sequence"]])
                            ELSE Served(Request(query, page, size), results, trace,
                                        Respond(results, page, size))
    /\ UNCHANGED <<classifierVars, publications, tieOrder, cacheMax>>

\* time.time() moves on
Tick ==
    /\ now < MaxTime
    /\ now' = now + 1
    /\ UNCHANGED <<classifierVars, publications, tieOrder, cache, cacheMax, last>>

\* The shapes of the raw records
Ann == Dict({"name", "profile"}, "Ann", "http://ann")
RecordString ==
    [title |-> Str("string"), link |-> Str("http://paper"),
     authors |-> Str("Ann, Bob"), date |-> Str("2020"), abstract |-> Str("text")]
RecordStrings ==
    [title |-> Str("strings"), link |-> Str("http://paper"),
     authors |-> ListV(<<Str("Ann"), Str(" Bob "), Str(" ")>>),
     published_date |-> Str("2021")]
RecordObjects ==
    [title |-> Str("objects"), authors |-> ListV(<<Ann>>), abstract |-> NoneV,
     year |-> Num(2022)]
RecordBare == [title |-> Str("bare")]
RecordNull == [title |-> Str("null"), authors |-> NoneV, date |-> NoneV]
RecordSpace == [title |-> Str("space"), authors |-> Str(" ")]

\* publications_data, with a record of every shape
HandlerCorpus ==
    <<Pub(RecordString, 500), Pub(RecordStrings, 500), Pub(RecordObjects, 14),
      Pub(RecordBare, 9), Pub(RecordNull, 10), Pub(RecordSpace, 0)>>

HandlerQueries ==
    { << >>, <<" ">>, <<"t", "t">>, <<" ", "T", "t">>, <<"t">>,
      <<"t", "t", " ", "t">> }

\* page and size: the defaults, a second page, and a page of no size
Paginations == {<<1, 10>>, <<2, 2>>, <<1, 0>>}

InitHandler ==
    /\ publications = HandlerCorpus
    /\ tieOrder = "stable"
    /\ cache = << >>
    /\ now = 0
    /\ cacheMax \in 0..MaxCacheMax
    /\ last = NoCall
    /\ ClassifierIdle

NextHandler ==
    \/ \E q \in HandlerQueries, p \in Paginations :
          HandleSearchBlank(q, p[1], p[2])
    \/ \E q \in HandlerQueries, p \in Paginations :
          HandleSearchQuery(q, p[1], p[2])
    \/ Tick

\* The /search handler, its cache and the clock, one request at a time.
SpecHandler == InitHandler /\ [][NextHandler]_vars

\* ------------------------------------------------- the record shaper alone
\* The raw records _normalize_record may be given: authors absent, null, a
\* string or a list of strings and author objects, with either name of the
\* date field and an abstract that may be null.
MaxAuthors == 2
AuthorItems == {Str("Ann"), Str(" Bob "), Str(" "), Ann}
AuthorShapes ==
    {NoneV, Str(""), Str(" "), Str("Ann, Bob")}
        \cup {ListV(items) : items \in SeqsUpTo(AuthorItems, MaxAuthors)}

RawRecords ==
    LET titled == {[title |-> Str("paper")]}
        authored == titled \cup {Put(r, "authors", a) : r \in titled, a \in AuthorShapes}
        dated == authored \cup {Put(r, "date", Str("2020")) : r \in authored}
                          \cup {Put(r, "published_date", Str("2021")) : r \in authored}
    IN  dated \cup {Put(r, "abstract", NoneV) : r \in dated}

\* _normalize_record(r) on the record at hand
CallNormalizeRecord ==
    /\ last' = Call("_normalize_record", "", 0, None,
                    [raw |-> publications[1].rec,
                     out |-> NormalizeRecord(publications[1].rec)])
    /\ UNCHANGED <<classifierVars, searchVars>>

InitShaper ==
    /\ \E r \in RawRecords : publications = <<Pub(r, 0)>>
    /\ tieOrder = "stable"
    /\ cache = << >>
    /\ now = 0
    /\ cacheMax = 0
    /\ last = NoCall
    /\ ClassifierIdle

NextShaper == CallNormalizeRecord

\* _normalize_record on every shape of raw record.
SpecShaper == InitShaper /\ [][NextShaper]_vars

\* ------------------------------------------------------- server startup
\* What DATA_DIR may hold when the server starts: each of the two corpus
\* files and each of the two classifier files is there or missing.
CorpusPaths == {"publications.json", "publications_links.json"}
JsonFile(data) == [kind |-> "json", data |-> data]
CorpusFiles ==
    [CorpusPaths -> {NoFile}]
        \cup {[p \in CorpusPaths |-> IF p \in present
                                     THEN JsonFile(<<Pub(PlainRecord, IF p = "publications.json" THEN 500 ELSE 14)>>)
                                     ELSE NoFile] :
                present \in (SUBSET CorpusPaths) \ {{}}}

StartupDataDirs ==
    {[categories |-> c, training |-> t] :
        c \in {NoSuchFile, CsvFile(<<"politics", "business", "health">>),
               CsvFile(<<"politics", "business">>)},
        t \in {NoSuchFile,
               CsvFile(<< Doc("words", "politics"), Doc("words", "business") >>)}}

\* load_publications: the primary file, or else the fallback file; the
\* second open is not guarded.
LoadPublications(primary, fallback) ==
    IF primary.kind # "absent" THEN [exc |-> None, data |-> primary.data]
    ELSE IF fallback.kind # "absent" THEN [exc |-> None, data |-> fallback.data]
    ELSE [exc |-> "FileNotFoundError", data |-> << >>]

\* main.py's module body: the corpus is loaded when the server starts.
Startup ==
    /\ last = NoCall
    /\ LET r == LoadPublications(files["publications.json"],
                                 files["publications_links.json"])
       IN  /\ publications' = r.data
           /\ last' = Call("load_publications", "", 0, r.exc, NoValue)
    /\ UNCHANGED <<classifierVars, tieOrder, cache, now, cacheMax>>

\* The module was imported, so the server takes requests.
Started == last # NoCall /\ ~(last.op = "load_publications" /\ last.exc # None)

InitStartup ==
    /\ dataDir \in StartupDataDirs
    /\ seeded = NoSplit
    /\ files \in CorpusFiles
    /\ heap = << >>
    /\ registry = [m \in ModelTypes |-> 0]
    /\ threads = << >>
    /\ requests = 0
    /\ counts = [m \in ModelTypes |->
                    [constructed |-> 0, autoTrained |-> 0, reused |-> FALSE]]
    /\ last = NoCall
    /\ SearchIdle

NextStartup ==
    \/ Startup
    \/ Started /\ \E text \in Texts, m \in ModelTypes : HandleClassify(text, m)
    \/ Started /\ \E m \in ModelTypes : HandleModelInfo(m)
    \/ Started /\ HandleTrainModels

\* The server from its start, on every combination of missing files.
SpecStartup == InitStartup /\ [][NextStartup]_vars

\* --------------------------------------------------- the normalizers alone
\* The texts the two preprocess_text functions are given: upper and lower
\* case letters, a digit, punctuation and spaces.
MaxTextLen == 3
TextChars == {" ", "a", "s", "t", "G", "2", "-"}
NormTexts == SeqsUpTo(TextChars, MaxTextLen)

NormalizedText(tokens) == [kind |-> "text", text |-> Join(tokens)]

\* preprocess_text(text) of search.py, on the text at hand
CallPreprocessText ==
    /\ last' = Call("preprocess_text", last.arg, 0, None,
                    NormalizedText(PreprocessText(last.arg)))
    /\ UNCHANGED <<classifierVars, searchVars>>

\* DocumentClassificationSystem.preprocess_text(text), on the text at hand
CallClassifierPreprocessText ==
    /\ last' = Call("DocumentClassificationSystem.preprocess_text", last.arg, 0,
                    None, NormalizedText(ClassifierPreprocessText(last.arg)))
    /\ UNCHANGED <<classifierVars, searchVars>>

\* The text at hand is the argument of the call to come.
InitNormalizer ==
    /\ \E text \in NormTexts : last = Call("", text, 0, None, NoValue)
    /\ ClassifierIdle
    /\ SearchIdle

NextNormalizer == CallPreprocessText \/ CallClassifierPreprocessText

\* The two normalizers on every text.
SpecNormalizer == InitNormalizer /\ [][NextNormalizer]_vars

\* ------------------------------------------------------ the split alone
\* Training files of p politics, b business and h health documents, with
\* the categories that occur in them configured.
Repeat(doc, n) == [i \in 1 .. n |-> doc]
TrainingOf(p, b, h) ==
    [categories |->
        CsvFile(SelectSeq(<<"politics", "business", "health">>,
                          LAMBDA cat : \/ cat = "politics" /\ p > 0
                                       \/ cat = "business" /\ b > 0
                                       \/ cat = "health" /\ h > 0)),
     training |->
        CsvFile(Repeat(Doc("words", "politics"), p)
                    \o Repeat(Doc("words", "business"), b)
                    \o Repeat(Doc("words", "health"), h))]

SplitDataDirs ==
    {TrainingOf(c[1], c[2], c[3]) :
        c \in {<<2, 2, 2>>, <<3, 3, 0>>, <<5, 1, 0>>, <<6, 0, 0>>, <<4, 3, 0>>,
               <<4, 4, 1>>, <<3, 2, 0>>}}

\* A train_model that draws a new split at every call.
UnseededSplits(c) == Splits(c)

\* train_test_split(..., random_state=42, ...): the generator is seeded
\* anew at every call, so every call on the same labels gets the same split.
SeededSplits(c) == {seeded}

\* train_model on classifier o; the fitting and held-out sets it used are
\* kept beside what it returned or raised.
CallTrainModelSeeded(o) ==
    /\ \E split \in SeededSplits(heap[o]) :
          \E out \in TrainOnSplit(heap[o], FreshRun(RunsOf(heap[o])), split) :
             /\ heap' = [heap EXCEPT ![o] = out.c]
             /\ last' = Call("train_model", "", o, out.exc,
                             [kind |-> "training", report |-> out.ret,
                              fitting |-> split.train, held_out |-> split.test])
    /\ UNCHANGED <<dataDir, seeded, registry, files, threads, requests, counts,
                   searchVars>>

InitSplit ==
    /\ dataDir \in SplitDataDirs
    /\ seeded \in Splits(NewClassifier("naive_bayes", dataDir))
    /\ heap = <<NewClassifier("naive_bayes", dataDir),
                NewClassifier("logistic_regression", dataDir)>>
    /\ registry = [m \in ModelTypes |->
                      IF m = "naive_bayes" THEN 1 ELSE 2]
    /\ files = [p \in Paths |-> NoFile]
    /\ threads = << >>
    /\ requests = 0
    /\ counts = [m \in ModelTypes |->
                    [constructed |-> 1, autoTrained |-> 0, reused |-> FALSE]]
    /\ last = NoCall
    /\ SearchIdle

NextSplit == \E o \in DOMAIN heap : CallTrainModelSeeded(o)

\* train_model on training files of six to nine documents, with the split
\* the seeded generator gives.
SpecSplit == InitSplit /\ [][NextSplit]_vars

\* ------------------------------------------- classify_text with numbers
\* predict_proba's array in percent: one probability per class of the
\* fitted model, in the order of classes_, summing to 100.  The tenths, and
\* the values next to the thresholds of the confidence tiers.
Percents == {10 * i : i \in 0 .. 10} \cup {59, 61, 79, 81}
ProbaVectors(len) ==
    IF len = 1 THEN {<<100>>}
    ELSE IF len = 2 THEN {<<a, 100 - a>> : a \in Percents}
    ELSE UNION {{<<a, b, 100 - a - b>> : b \in {x \in Percents : a + x <= 100}} :
                   a \in Percents}

\* model.predict: the class of the greatest probability, the first of them
\* when several are equal; as a position of the array.
ArgMax(proba) ==
    CHOOSE i \in DOMAIN proba :
        /\ \A j \in DOMAIN proba : proba[j] <= proba[i]
        /\ \A j \in 1 .. i - 1 : proba[j] < proba[i]

\* sorted(probabilities.items(), key=lambda x: x[1], reverse=True): the
\* items of the dict in insertion order, sorted by probability descending;
\* the sort is stable, so equal probabilities keep their order.
RECURSIVE SortedProbs(_)
SortedProbs(items) ==
    IF items = << >> THEN << >>
    ELSE LET i == ArgMax([j \in DOMAIN items |-> items[j][2]])
         IN  <<items[i]>> \o SortedProbs(SubSeq(items, 1, i - 1)
                                           \o SubSeq(items, i + 1, Len(items)))

\* Thresholds that leave the boundary values to the lower tier.
ConfLevelAbove(confidence) ==
    IF confidence > 80 THEN "high"
    ELSE IF confidence > 60 THEN "moderate"
    ELSE "low"

\* if confidence >= 0.8 ... elif confidence >= 0.6 ... else
ConfLevel(confidence) ==
    IF confidence >= 80 THEN "high"
    ELSE IF confidence >= 60 THEN "moderate"
    ELSE "low"

\* _generate_explanation: what the sentence names.
GenerateExplanation(c, category, confidence, items) ==
    LET alternatives == Tail(SortedProbs(items))
    IN  [model_type |-> c.model_type, category |-> category,
         confidence |-> confidence, conf_level |-> ConfLevel(confidence),
         alternatives |-> alternatives,
         alternatives_clause |-> alternatives # << >>]

\* classify_text on a text to which the fitted model gives the
\* probabilities proba.
ClassifyScored(c, proba) ==
    LET prediction == ClassAt(c.model.classes, ArgMax(proba) - 1)
        positions == 0 .. Len(proba) - 1
    IN  IF ~c.is_trained THEN Outcome(c, "ValueError", NoValue)
        ELSE IF prediction \notin DOMAIN c.label_decoder
        THEN Outcome(c, "KeyError", NoValue)
        ELSE IF prediction \notin positions
        THEN Outcome(c, "IndexError", NoValue)
        ELSE IF \E i \in positions : i \notin DOMAIN c.label_decoder
        THEN Outcome(c, "KeyError", NoValue)
        ELSE LET category == c.label_decoder[prediction]
                 confidence == proba[prediction + 1]
                 items == [i \in DOMAIN proba |->
                              <<c.label_decoder[i - 1], proba[i]>>]
             IN  Outcome(c, None,
                    [kind |-> "classification",
                     predicted_category |-> category,
                     confidence |-> confidence,
                     probabilities |->
                         [cat \in {items[i][1] : i \in DOMAIN items} |->
                             items[CHOOSE i \in DOMAIN items : items[i][1] = cat][2]],
                     explanation |->
                         GenerateExplanation(c, category, confidence, items),
                     model_used |-> c.model_type])

\* classify_text on classifier o, for a text of any probabilities.
CallClassifyTextScored(o) ==
    /\ \E proba \in ProbaVectors(Cardinality(heap[o].model.classes)) :
          LET out == ClassifyScored(heap[o], proba)
          IN  last' = Call("classify_text", "words", o, out.exc, out.ret)
    /\ UNCHANGED <<classifierVars, searchVars>>

\* A classifier of the registry that was trained on the data of DATA_DIR.
InitExplain ==
    /\ dataDir \in DataDirs
    /\ seeded = NoSplit
    /\ \E m \in ModelTypes :
          /\ \E out \in TrainModel(NewClassifier(m, dataDir), 1) :
                out.exc = None /\ heap = <<out.c>>
          /\ registry = [t \in ModelTypes |-> IF t = m THEN 1 ELSE 0]
          /\ counts = [t \in ModelTypes |->
                          IF t = m
                          THEN [constructed |-> 1, autoTrained |-> 1, reused |-> FALSE]
                          ELSE [constructed |-> 0, autoTrained |-> 0, reused |-> FALSE]]
    /\ files = [p \in Paths |-> NoFile]
    /\ threads = << >>
    /\ requests = 0
    /\ last = NoCall
    /\ SearchIdle

NextExplain == \E o \in DOMAIN heap : CallClassifyTextScored(o)

\* classify_text of a trained classifier, on texts of every probabilities.
SpecExplain == InitExplain /\ [][NextExplain]_vars

\* ------------------------------------------- retraining and loading
\* train_model with the seeded split, whatever the documents.
CallRetrainModel(o) ==
    /\ \E out \in (IF ~AllLabelled(heap[o])
                    THEN {Outcome(heap[o], "KeyError", NoValue)}
                    ELSE UNION {TrainOnSplit(heap[o], FreshRun(RunsOf(heap[o])), split) :
                                  split \in SeededSplits(heap[o])}) :
          /\ heap' = [heap EXCEPT ![o] = out.c]
          /\ last' = Call("train_model", "", o, out.exc, out.ret)
    /\ UNCHANGED <<dataDir, seeded, registry, files, threads, requests, counts,
                   searchVars>>

\* One classifier of each model type on the documents of DATA_DIR, and the
\* file a classifier may have saved earlier.
InitRetrain ==
    /\ dataDir \in DataDirs
    /\ seeded \in (IF AllLabelled(NewClassifier("naive_bayes", dataDir))
                   THEN Splits(NewClassifier("naive_bayes", dataDir))
                   ELSE {NoSplit})
    /\ heap = <<NewClassifier("naive_bayes", dataDir),
                NewClassifier("logistic_regression", dataDir)>>
    /\ registry = [m \in ModelTypes |-> IF m = "naive_bayes" THEN 1 ELSE 2]
    /\ files \in [Paths -> {NoFile, SavedEarlier}]
    /\ threads = << >>
    /\ requests = 0
    /\ counts = [m \in ModelTypes |->
                    [constructed |-> 1, autoTrained |-> 0, reused |-> FALSE]]
    /\ last = NoCall
    /\ SearchIdle

NextRetrain ==
    \/ \E o \in DOMAIN heap : CallRetrainModel(o)
    \/ \E o \in DOMAIN heap, path \in Paths : CallLoadModel(o, path)
    \/ \E o \in DOMAIN heap, text \in Texts : CallClassifyText(o, text)

\* train_model, load_model and classify_text in any order, the split being
\* the same in every training.
SpecRetrain == InitRetrain /\ [][NextRetrain]_vars

\* ------------------------------------------------ the pages of /search
MaxPage == 3
MaxSize == 3
\* page and size: any integers the query string may carry.
PageRequests == {<<page, size>> : page \in (0 - MaxPage) .. MaxPage, size \in 0 .. MaxSize}

\* A blank query, and queries with and without results.
PageQueries == {<< >>, <<"t", "t">>, <<"t">>}

InitPages ==
    /\ publications = HandlerCorpus
    /\ tieOrder = "stable"
    /\ cache = << >>
    /\ now = 0
    /\ cacheMax = MaxCacheMax
    /\ last = NoCall
    /\ ClassifierIdle

NextPages ==
    \/ \E q \in PageQueries, p \in PageRequests :
          HandleSearchBlank(q, p[1], p[2])
    \/ \E q \in PageQueries, p \in PageRequests :
          HandleSearchQuery(q, p[1], p[2])

\* The /search handler on every page and size.
SpecPages == InitPages /\ [][NextPages]_vars

\* ------------------------------------------------------------------ C1
\* C1: a classifier whose is_trained flag is False answers classify_text and
\* save_model with a ValueError, and the failed call changes neither the
\* classifier (is_trained, model, vectorizer, label maps) nor any file; the
\* same holds of classify_text reached through POST /classify.
C1_UntrainedCallsFail ==
    [][/\ (/\ last'.op \in {"classify_text", "save_model"}
           /\ ~heap[last'.obj].is_trained)
          => /\ last'.exc = "ValueError"
             /\ heap' = heap
             /\ files' = files
       /\ (/\ last'.op = "/classify"
           /\ last'.obj # 0
           /\ ~heap'[last'.obj].is_trained)
          => /\ last'.exc = "ValueError"
             /\ files' = files
             /\ registry[last'.arg] # 0 => heap' = heap]_vars

\* An untrained classifier that already holds a vectorizer (a training run
\* that raised) was asked to classify and raised ValueError.
C1_Witness ==
    /\ last.op = "classify_text"
    /\ last.exc = "ValueError"
    /\ ~heap[last.obj].is_trained
    /\ heap[last.obj].vectorizer.run # 0

\* ------------------------------------------------------------------ C2
\* C2: with handlers calling _get_classifier concurrently for a model_type
\* that is not registered, at most one classifier is constructed and at most
\* one auto-training is run for it.
C2_OneConstructionOneTraining ==
    \A m \in ModelTypes :
        counts[m].constructed <= 1 /\ counts[m].autoTrained <= 1

\* ------------------------------------------------------------------ C3
\* C3: with the calls made one after the other, the first access for a
\* model_type constructs one classifier and auto-trains it once; every later
\* access returns that same instance, constructs nothing and does not
\* auto-train again, also when the first auto-training raised and left the
\* registered instance untrained.
C3_RegistryReuse ==
    [][\A m \in ModelTypes :
        /\ registry[m] # 0
             => /\ registry'[m] = registry[m]
                /\ counts'[m].constructed = counts[m].constructed
                /\ counts'[m].autoTrained = counts[m].autoTrained
        /\ (registry[m] = 0 /\ registry'[m] # 0)
             => /\ counts'[m].constructed = 1
                /\ counts'[m].autoTrained = 1
                /\ registry'[m] = Len(heap') \/ registry'[m] = Len(heap') - 1
                /\ registry'[m] > Len(heap)
        /\ (/\ last'.op \in {"/classify", "/model-info"}
            /\ last'.arg = m
            /\ last'.exc # "TextRequired")
             => registry'[m] # 0 /\ last'.obj = registry'[m]
        /\ (last'.op = "/train-models" /\ m = "naive_bayes")
             => registry'[m] # 0]_vars

\* A model_type whose auto-training raised was accessed again: the second
\* access found the untrained instance and used it.
C3_Witness ==
    /\ last.op = "/classify"
    /\ last.exc = "ValueError"
    /\ registry[last.arg] = last.obj
    /\ counts[last.arg].reused
    /\ counts[last.arg].autoTrained = 1
    /\ ~heap[last.obj].is_trained

\* ------------------------------------------------------------------ C4
\* C4: for every corpus and every non-blank query, search returns at most
\* 50 results, every result has a score of at least 0.01 (the similarity
\* and the rounded score the result carries), and the scores do not
\* increase from the first result to the last.
C4_BoundedSortedResults ==
    (last.op = "search" /\ ~Blank(last.arg)) =>
        LET hits == last.ret.hits
            results == last.ret.results
            sims == Sims(last.arg)
        IN  /\ Len(results) <= 50
            /\ Len(results) = Len(hits)
            /\ \A k \in DOMAIN results :
                  /\ sims[hits[k]] >= 10
                  /\ results[k]["score"].kind = "num"
                  /\ results[k]["score"].n >= 10
            /\ \A k \in DOMAIN results :
                  k > 1 => /\ sims[hits[k - 1]] >= sims[hits[k]]
                           /\ results[k - 1]["score"].n >= results[k]["score"].n

\* A search of more than 50 matching documents, cut to 50 results of two
\* different scores.
C4_Witness ==
    /\ last.op = "search" /\ ~Blank(last.arg)
    /\ Len(last.ret.results) = 50
    /\ last.ret.results[1]["score"].n > last.ret.results[50]["score"].n
    /\ Cardinality({i \in DOMAIN publications : publications[i].sim >= 10}) > 50

\* ------------------------------------------------------------------ C5
\* C5: search returns the documents of similarity >= 0.01, at most the top
\* 50 of them by similarity; of two documents of equal similarity the one
\* earlier in the corpus comes first, and when a tie straddles the cut at
\* 50 the earlier document is the one kept.
C5_TiesInCorpusOrder ==
    (last.op = "search" /\ ~Blank(last.arg)) =>
        LET hits == last.ret.hits
            sims == Sims(last.arg)
            eligible == {i \in DOMAIN publications : sims[i] >= 10}
            Before(a, b) == sims[a] > sims[b] \/ (sims[a] = sims[b] /\ a < b)
        IN  /\ Range(hits) \subseteq eligible
            /\ Len(hits) = Min(50, Cardinality(eligible))
            /\ \A k \in DOMAIN hits : k > 1 => Before(hits[k - 1], hits[k])
            /\ \A i \in eligible \ Range(hits) :
                  \A k \in DOMAIN hits : Before(hits[k], i)

\* ------------------------------------------------------------------ C6
\* C6: search called with an empty or whitespace-only query returns the
\* empty sequence, raises nothing, and reads neither the index nor the
\* vectorizer.
C6_BlankQueryIsNoOp ==
    (last.op = "search" /\ Strip(last.arg) = << >>) =>
        /\ last.ret.results = << >>
        /\ last.exc = None
        /\ last.ret.uses = {}

\* A whitespace-only query, answered on a corpus with matching documents.
C6_Witness ==
    /\ last.op = "search" /\ last.arg = <<" ", " ">>
    /\ last.ret.results = << >>
    /\ \E i \in DOMAIN publications : publications[i].sim >= 10

\* ------------------------------------------------------------------ C7
\* C7: the /search handler answers an empty or whitespace-only query with
\* all records of the corpus, in corpus order, each with score 0.0, and the
\* total is the number of records (the response of a request whose size is
\* not 0 carries the page of that list); the request neither reads nor
\* writes the result cache.
C7_BlankQueryListsCorpus ==
    [][(last'.op = "/search" /\ Strip(last'.arg.query) = << >>) =>
          LET results == last'.ret.results
              response == last'.ret.response
              page == last'.arg.page
              size == last'.arg.size
          IN  /\ cache' = cache
              /\ last'.ret.calls = << >>
              /\ Len(results) = Len(publications)
              /\ \A i \in DOMAIN results :
                    /\ results[i]["score"] = Num(0)
                    /\ results[i]["title"] = publications[i].rec["title"]
              /\ size > 0 =>
                    /\ last'.exc = None
                    /\ response.total = Len(publications)
                    /\ \A k \in DOMAIN response.results :
                          response.results[k] = results[(page - 1) * size + k]
                    /\ Len(response.results)
                          = Max(0, Min(size, Len(results) - (page - 1) * size))]_vars

\* A whitespace-only query answered in full while the cache holds entries.
C7_Witness ==
    /\ last.op = "/search" /\ last.arg.query = <<" ">>
    /\ last.exc = None
    /\ last.ret.response.total = 6
    /\ Len(last.ret.response.results) = 6
    /\ Len(cache) = 2

\* ------------------------------------------------------------------ C8
\* C8: every result of the search interface, on the blank-query path and on
\* the ranked path, has exactly the six fields title, link, authors,
\* published_date, abstract, score, and its authors field is a list of
\* {name, profile} objects, whatever the shape of authors in the raw record.
C8_SixFieldsAndAuthorObjects ==
    (last.op = "/search" /\ last.exc = None) =>
        \A k \in DOMAIN last.ret.results :
            LET result == last.ret.results[k]
            IN  /\ DOMAIN result = {"title", "link", "authors",
                                    "published_date", "abstract", "score"}
                /\ result["authors"].kind = "list"
                /\ \A a \in DOMAIN result["authors"].items :
                      /\ result["authors"].items[a].kind = "dict"
                      /\ result["authors"].items[a].keys = {"name", "profile"}

\* ------------------------------------------------------------------ C9
\* C9: when _cache_set inserts a new key while the cache holds
\* SEARCH_CACHE_MAX entries, exactly one entry is evicted, and it has the
\* smallest timestamp of the entries present; below capacity nothing is
\* evicted; a cache hit leaves every entry and its timestamp as it was.
C9_EvictsOldestInsertion ==
    [][/\ cache' # cache =>
            LET new == {e \in Range(cache') : e \notin Range(cache)}
                key == Lower(Strip(last'.arg.query))
                held == {e \in Range(cache) : e.key # key}
                gone == {e \in held : e \notin Range(cache')}
            IN  /\ Cardinality(new) = 1
                /\ \A e \in new : e.key = key
                /\ Len(cache') = Cardinality(Range(cache'))
                /\ Cardinality(held) <= cacheMax
                /\ IF Cardinality(held) = cacheMax
                   THEN /\ Cardinality(gone) = 1
                        /\ \A e \in gone : \A f \in held : e.ts <= f.ts
                   ELSE gone = {}
       /\ (last'.op = "/search" /\ last'.ret.calls = <<"_cache_get">>)
            => cache' = cache]_vars

\* An insertion at capacity 2 that evicted the older of two entries of
\* different timestamps.
C9_Witness ==
    /\ last.op = "/search" /\ last.ret.evicted # {}
    /\ cacheMax = 2 /\ Len(cache) = 2
    /\ cache[1].ts > 0
    /\ cache[1].ts < cache[2].ts

\* ----------------------------------------------------------------- C10
\* C10: _cache_get never returns a value whose entry was inserted more than
\* SEARCH_CACHE_TTL before the lookup; a lookup that finds such an entry
\* removes it and reports a miss, and the handler searches again and
\* inserts the key with a fresh timestamp.
C10_EntriesExpire ==
    [][(/\ last'.op = "/search" /\ Strip(last'.arg.query) # << >>
        /\ ~(cache' = cache /\ last' = last /\ now' # now)) =>
          LET key == Lower(Strip(last'.arg.query))
              found == {e \in Range(cache) : e.key = key}
              hit == last'.ret.calls = <<"_cache_get">>
          IN  /\ hit => /\ \E e \in found :
                              /\ now - e.ts <= SEARCH_CACHE_TTL
                              /\ last'.ret.results = e.value
                        /\ cache' = cache
              /\ \A e \in found :
                    now - e.ts > SEARCH_CACHE_TTL =>
                      /\ last'.ret.calls = <<"_cache_get", "search", "_cache_set">>
                      /\ e \notin Range(cache')
                      /\ last'.exc # "ValueError" =>
                            \E f \in Range(cache') :
                                /\ f.key = key
                                /\ f.ts >= now /\ f.ts = now'
                                /\ f.value = last'.ret.results]_vars

\* A lookup that dropped an expired entry and stored the key again.
C10_Witness ==
    /\ last.op = "/search" /\ last.ret.expired
    /\ \E i \in DOMAIN cache :
          /\ cache[i].key = Lower(Strip(last.arg.query))
          /\ cache[i].ts > SEARCH_CACHE_TTL
          /\ cache[i].value # << >>

\* ----------------------------------------------------------------- C11
\* C11: after _normalize_record the authors field is a list whose every
\* element is an author object with a non-empty name and a profile field,
\* for authors given as a string (also a whitespace-only one), a list of
\* strings, a list of objects, a list mixing objects and strings, or absent
\* or empty (which gives []); and nothing raises.
C11_AuthorsAlwaysAuthorObjects ==
    last.op = "_normalize_record" =>
        LET authors == last.ret.out["authors"]
            raw == Get(last.ret.raw, "authors", ListV(<< >>))
        IN  /\ last.exc = None
            /\ authors.kind = "list"
            /\ \A i \in DOMAIN authors.items :
                  /\ authors.items[i].kind = "dict"
                  /\ {"name", "profile"} \subseteq authors.items[i].keys
                  /\ authors.items[i].name # ""
            /\ ~Truthy(raw) => authors.items = << >>

\* ----------------------------------------------------------------- C12
\* C12: the label_encoder and label_decoder built at construction are mutual
\* inverses (decoder[encoder[c]] = c for every configured category c,
\* encoder[decoder[i]] = i for every label i) and the labels are exactly
\* 0..N-1 in the order of the category list, N being the number of
\* configured categories, also when a category is repeated in the list.
C12_LabelsAreListPositions ==
    [][\A o \in DOMAIN heap' \ DOMAIN heap :
          LET c == heap'[o]
              N == Len(c.categories)
          IN  /\ \A i \in 1 .. N :
                    c.label_decoder[c.label_encoder[c.categories[i]]] = c.categories[i]
              /\ \A l \in DOMAIN c.label_decoder :
                    c.label_encoder[c.label_decoder[l]] = l
              /\ DOMAIN c.label_decoder = 0 .. N - 1
              /\ \A i \in 1 .. N : c.label_decoder[i - 1] = c.categories[i]]_vars

\* ----------------------------------------------------------------- C13
LabelMaps(c) == <<c.categories, c.label_encoder, c.label_decoder>>

\* C13 (as stated): categories, label_encoder and label_decoder of a
\* classifier are fixed at construction; no later operation on the instance
\* (train_model, classify_text, get_model_info, save_model, load_model)
\* changes them.
C13_LabelMapsFixed ==
    [][\A o \in DOMAIN heap : LabelMaps(heap'[o]) = LabelMaps(heap[o])]_vars

\* C13 (amended): train_model, classify_text, get_model_info, save_model and
\* a load_model that fails leave categories, label_encoder and label_decoder
\* as they were; a load_model that succeeds replaces them by those stored in
\* the file.
C13_LabelMapsFixedUntilLoaded ==
    [][\A o \in DOMAIN heap :
          IF last'.op = "load_model" /\ last'.obj = o /\ last'.exc = None
          THEN LabelMaps(heap'[o]) = LabelMaps(files[last'.arg])
          ELSE LabelMaps(heap'[o]) = LabelMaps(heap[o])]_vars

\* A classifier has loaded a file and now has other categories than those
\* it was constructed with.
C13_Witness ==
    /\ last.op = "load_model"
    /\ last.exc = None
    /\ heap[last.obj].categories # LoadCategories(dataDir)
    /\ heap[last.obj].label_decoder # LabelDecoder(LabelEncoder(LoadCategories(dataDir)))

\* ----------------------------------------------------------------- C14
\* C14: for a trained classifier and any text, whatever the distribution of
\* the training documents over the configured categories, classify_text
\* returns probabilities with one entry per configured category that sum to
\* 1 (each class of the model is counted once), confidence is the model's
\* probability for the predicted label, and
\* probabilities[predicted_category] = confidence.  Stated for a classifier
\* whose categories are distinct and whose vectorizer and model were fitted
\* by one training run.
C14_ProbabilitiesPerCategory ==
    (/\ last.op = "classify_text"
     /\ heap[last.obj].is_trained
     /\ heap[last.obj].vectorizer.fitted
     /\ heap[last.obj].model.fitted
     /\ heap[last.obj].vectorizer.run = heap[last.obj].model.run
     /\ Cardinality(Range(heap[last.obj].categories)) = Len(heap[last.obj].categories))
    => /\ last.exc = None
       /\ LET c == heap[last.obj]
              r == last.ret
          IN  /\ DOMAIN r.probabilities = Range(c.categories)
              /\ {r.probabilities[cat] : cat \in DOMAIN r.probabilities} = c.model.classes
              /\ \A a, b \in DOMAIN r.probabilities :
                    r.probabilities[a] = r.probabilities[b] => a = b
              /\ r.confidence = c.label_encoder[r.predicted_category]
              /\ r.probabilities[r.predicted_category] = r.confidence

\* ----------------------------------------------------------------- C15
\* The scenario: categories politics, business, health and six training
\* documents, two of each category.
SixDocumentsTwoPerCategory(c) ==
    /\ c.categories = <<"politics", "business", "health">>
    /\ c.label_decoder = LabelDecoder(LabelEncoder(c.categories))
    /\ Len(c.training_documents) = 6
    /\ \A cat \in Range(c.categories) :
          Cardinality({i \in 1 .. 6 : c.training_documents[i].category = cat}) = 2

TrainedOnFewDocuments ==
    /\ last.op = "train_model"
    /\ AllLabelled(heap[last.obj])
    /\ LET labels == Labels(heap[last.obj])
       IN  Len(labels) < Max(6, 2 * Cardinality(Range(labels)))

\* Fitted on all n documents with nothing held out, and reported so.
ReportsAllFitted ==
    LET c == heap[last.obj]
    IN  /\ last.exc = None
        /\ last.ret.training_size = Len(c.training_documents)
        /\ last.ret.test_size = 0
        /\ ~last.ret.has_accuracy
        /\ last.ret.classification_report = {}
        /\ c.is_trained
        /\ c.model.classes = Range(Labels(c))

\* C16 (as stated): with n training documents of k categories, if
\* n < max(6, 2k) then train_model fits on all n documents, holds out
\* nothing and returns training_size = n, test_size = 0, no accuracy and no
\* report entries.
C16_FewDocumentsAllFitted ==
    TrainedOnFewDocuments => ReportsAllFitted

\* C16 (amended): if n < max(6, 2k) then train_model holds out nothing; it
\* raises ValueError when no document has a token or when the model is a
\* logistic regression and k < 2, and otherwise fits on all n documents and
\* returns training_size = n, test_size = 0, no accuracy and no report
\* entries.
C16_FewDocumentsAllFittedOrValueError ==
    TrainedOnFewDocuments =>
        LET c == heap[last.obj]
        IN  IF \/ \A i \in DOMAIN c.training_documents :
                     c.training_documents[i].text = "stop"
               \/ /\ c.model_type = "logistic_regression"
                  /\ Cardinality(Range(Labels(c))) < 2
            THEN last.exc = "ValueError" /\ last.ret = NoValue
            ELSE ReportsAllFitted

\* train_model has fitted on two documents of two categories and held out
\* nothing.
C16_Witness ==
    /\ TrainedOnFewDocuments
    /\ ReportsAllFitted
    /\ last.ret.training_size = 2
    /\ Cardinality(heap[last.obj].model.classes) = 2

\* ----------------------------------------------------------------- C17
\* A training document of the classifier names a category that is not
\* configured.
HasUnconfiguredDocument(c) ==
    \E i \in DOMAIN c.training_documents :
        c.training_documents[i].category \notin Range(c.categories)

\* C17: a training document whose category is not configured is never used
\* for fitting: train_model raises (KeyError), and the classifier is then as
\* it was: an untrained one stays as constructed, a trained one keeps its
\* model and vectorizer.  (Nothing but load_model, which fits nothing,
\* changes such a classifier.)
C17_UnconfiguredCategoryRaises ==
    [][\A o \in DOMAIN heap' :
          (HasUnconfiguredDocument(heap'[o]) /\ last'.op # "load_model") =>
              /\ o \in DOMAIN heap => heap'[o] = heap[o]
              /\ o \notin DOMAIN heap =>
                    heap'[o] = NewClassifier(heap'[o].model_type, dataDir)
              /\ (last'.op = "train_model" /\ last'.obj = o) =>
                    last'.exc = "KeyError"]_vars

\* train_model has raised on a trained classifier (one that loaded a model
\* file) whose documents name an unconfigured category.
C17_Witness ==
    /\ last.op = "train_model"
    /\ last.exc = "KeyError"
    /\ HasUnconfiguredDocument(heap[last.obj])
    /\ heap[last.obj].is_trained
    /\ heap[last.obj].model.fitted
    /\ heap[last.obj].vectorizer.fitted

\* ----------------------------------------------------------------- C18
\* The classifier train_models trains for model type m: the registered one,
\* or a new one.
ToBeTrained(m) ==
    IF registry[m] # 0 THEN heap[registry[m]] ELSE NewClassifier(m, dataDir)

\* C18: train_models reports failures per model configuration: when
\* train_model raises for one model type, the other model type (whose
\* train_model does not raise) is still trained, and its result is still
\* reported by POST /train-models.
C18_FailuresPerConfiguration ==
    [][last'.op = "/train-models" =>
          \A m \in ModelTypes :
              (\A out \in TrainModel(ToBeTrained(m), 1) : out.exc = None) =>
                  /\ m \in last'.ret.reported
                  /\ heap'[registry'[m]].is_trained]_vars

\* ----------------------------------------------------------------- C19
\* C19: a missing corpus or training-data source is never surfaced as an
\* error: whichever of the primary corpus file, the fallback corpus file,
\* categories.csv and training_documents.csv are missing, load_publications
\* returns the corpus of a file that is there, and a classifier built from
\* the built-in categories or training documents is trained when
\* _get_classifier returns it.
C19_MissingSourcesRecovered ==
    /\ last.op = "load_publications" =>
          /\ last.exc = None
          /\ \E p \in CorpusPaths :
                files[p] # NoFile /\ publications = files[p].data
    /\ (~dataDir.categories.present \/ ~dataDir.training.present) =>
          \A o \in DOMAIN heap : heap[o].is_trained

\* ----------------------------------------------------------------- C20
\* C20: a registry classifier is immutable once trained, so a classify_text
\* call that has passed its guard, running beside any other request handler
\* (another classify, get_model_info, or train_models retraining the same
\* instance), never meets an unfitted vectorizer or model and always uses a
\* vectorizer and a model that were fitted in the same training run.  Stated
\* for a model type that was constructed and auto-trained once.
C20_ClassifyUsesOneTrainingRun ==
    [][\A t \in Threads :
          (/\ threads[t].op = "/classify"
           /\ threads[t].pc \in {"c_transform", "c_predict"}
           /\ threads'[t].pc = "idle"
           /\ counts[threads[t].m].constructed = 1
           /\ counts[threads[t].m].autoTrained = 1)
          => /\ last'.exc # "NotFittedError"
             /\ threads[t].pc = "c_predict"
             /\ heap[threads[t].obj].model.fitted
             /\ threads[t].vec.run = heap[threads[t].obj].model.run]_vars

\* ----------------------------------------------------------------- C21
\* The fitted state of a classifier or of a blob.
FittedState(x) ==
    <<x.model, x.vectorizer, x.label_encoder, x.label_decoder, x.categories,
      x.model_type>>

\* What classify_text may return or raise on a classifier, for a text.
ClassifyResults(c, text) ==
    {<<out.exc, out.ret>> : out \in ClassifyText(c, text)}

\* C21: save_model followed by load_model restores the fitted state as one
\* unit: save_model of a trained classifier writes its model, vectorizer,
\* label_encoder, label_decoder, categories and model_type; after load_model
\* the loading classifier is trained and has exactly those of the file, so
\* classify_text gives the same on it as on a trained classifier with the
\* saved state, for every text.
C21_SaveLoadRestoresFittedState ==
    [][/\ (last'.op = "save_model" /\ last'.exc = None) =>
             /\ heap[last'.obj].is_trained
             /\ FittedState(files'[last'.arg]) = FittedState(heap[last'.obj])
       /\ (last'.op = "load_model" /\ last'.exc = None) =>
             LET c == heap'[last'.obj]
             IN  /\ c.is_trained
                 /\ FittedState(c) = FittedState(files[last'.arg])
                 /\ \A o \in DOMAIN heap :
                       (/\ heap[o].is_trained
                        /\ FittedState(heap[o]) = FittedState(files[last'.arg]))
                       => \A text \in Texts :
                            ClassifyResults(c, text) = ClassifyResults(heap[o], text)]_vars

\* The logistic regression classifier of the registry has loaded the file
\* that the naive Bayes classifier saved, on configured categories.
C21_Witness ==
    /\ last.op = "load_model"
    /\ last.exc = None
    /\ dataDir.categories.present
    /\ registry["logistic_regression"] = last.obj
    /\ registry["naive_bayes"] \notin {0, last.obj}
    /\ FittedState(heap[last.obj]) = FittedState(heap[registry["naive_bayes"]])
    /\ FittedState(heap[last.obj]) = FittedState(files[last.arg])

\* ----------------------------------------------------------------- C22
\* The text a call of a normalizer returned is tokens of lowercase letters
\* and digits separated by single spaces, and empty for a blank input.
TokensSingleSpaced(call) ==
    LET out == call.ret.text
    IN  /\ call.exc = None
        /\ \A i \in DOMAIN out : out[i] \in Letters \cup Digits \cup {" "}
        /\ out = Join(Tokenize(out, << >>))
        /\ Blank(call.arg) => out = << >>

WordsKept(text, chars, n) ==
    SelectSeq(Tokenize([i \in DOMAIN text |->
                           IF LowerChar(text[i]) \in chars
                           THEN LowerChar(text[i]) ELSE " "], << >>),
              LAMBDA w : Len(w) > n /\ w \notin STOP)

\* The tokens a call returned are the stems, in order, of the words kept.
StemsOfWordsKept(call, chars, n) ==
    LET words == WordsKept(call.arg, chars, n)
    IN  Tokenize(call.ret.text, << >>) = [i \in DOMAIN words |-> Stem(words[i])]

HeldOutOf(n, k) ==
    CHOOSE h \in 0 .. n :
        /\ 5 * h >= n /\ h >= k
        /\ \A g \in 0 .. h - 1 : 5 * g < n \/ g < k

\* Every category has in the held-out set its share of it, rounded down or
\* up.
Proportional(docs, held) ==
    \A cat \in {docs[i].category : i \in DOMAIN docs} :
        LET count == Cardinality({i \in DOMAIN docs : docs[i].category = cat})
            inHeld == Cardinality({i \in held : docs[i].category = cat})
        IN  /\ (inHeld + 1) * Len(docs) > count * Cardinality(held)
            /\ (inHeld - 1) * Len(docs) < count * Cardinality(held)

EveryCategoryTwice(docs) ==
    \A cat \in {docs[i].category : i \in DOMAIN docs} :
        Cardinality({i \in DOMAIN docs : docs[i].category = cat}) >= 2

C24_AlternativesAreTheOtherCategories ==
    (last.op = "classify_text" /\ last.exc = None) =>
        LET c == heap[last.obj]
            alternatives == last.ret.explanation.alternatives
            others == Range(c.categories) \ {last.ret.predicted_category}
        IN  /\ {alternatives[i][1] : i \in DOMAIN alternatives} = others
            /\ Len(alternatives) = Cardinality(others)
            /\ \A i, j \in DOMAIN alternatives :
                  i < j => alternatives[i][2] >= alternatives[j][2]
            /\ last.ret.explanation.alternatives_clause <=> others # {}

\* ----------------------------------------------------------------- C25
\* C25: the confidence tier of the explanation is a function of confidence
\* alone: "high" exactly when confidence >= 0.8, "moderate" exactly when
\* 0.6 <= confidence < 0.8, "low" exactly when confidence < 0.6; 0.8 and 0.6
\* belong to the upper tier.  (Confidence in percent.)
C25_TiersByFixedThresholds ==
    (last.op = "classify_text" /\ last.exc = None) =>
        LET confidence == last.ret.explanation.confidence
            tier == last.ret.explanation.conf_level
        IN  /\ confidence = last.ret.confidence
            /\ tier \in {"high", "moderate", "low"}
            /\ tier = "high" <=> confidence >= 80
            /\ tier = "moderate" <=> (60 <= confidence /\ confidence < 80)
            /\ tier = "low" <=> confidence < 60

\* A classification with confidence 0.6 exactly, named moderate.
C25_Witness ==
    /\ last.op = "classify_text"
    /\ last.exc = None
    /\ last.ret.confidence = 60
    /\ last.ret.explanation.conf_level = "moderate"

\* ----------------------------------------------------------------- C26
\* C26: after any sequence of /search requests and for every configured
\* SEARCH_CACHE_MAX >= 0, the result cache never holds more than
\* SEARCH_CACHE_MAX entries and _cache_set never raises.
C26_CacheBoundedAndSetNeverRaises ==
    /\ Len(cache) <= cacheMax
    /\ (last.op = "/search" /\ "_cache_set" \in Range(last.ret.calls)) =>
          last.exc = None \/ last.arg.size = 0

\* ----------------------------------------------------------------- C27
\* C27: the result cache is transparent: whatever requests came before and
\* whatever time passed, the response to a non-blank query is the one the
\* handler builds from search_engine.search(query): the same results and
\* the same total; an empty result list included.
C27_CacheIsTransparent ==
    (last.op = "/search" /\ ~Blank(last.arg.query)) =>
        last.ret.response =
            Respond(Search(last.arg.query), last.arg.page, last.arg.size).response

\* ----------------------------------------------------------------- C28
\* Training a new classifier of model type m on the data of DATA_DIR succeeds.
TrainingSucceeds(m) ==
    \A out \in TrainModel(NewClassifier(m, dataDir), 1) : out.exc = None

\* C28: under concurrent request handlers no caller of _get_classifier
\* receives a classifier whose auto-training has not finished: when
\* training on the available data succeeds, no /classify request fails at
\* the guard of classify_text ("Model must be trained before
\* classification").
C28_NoUntrainedClassifierHandedOut ==
    [][\A t \in Threads :
          (/\ threads[t].op = "/classify"
           /\ threads[t].pc = "c_guard"
           /\ threads'[t].pc = "idle"
           /\ TrainingSucceeds(threads[t].m))
          => last'.exc # "ValueError"]_vars

\* ----------------------------------------------------------------- C29
\* C29: in every reachable state of a classifier, is_trained implies that
\* the vectorizer and the model are both fitted and come from the same
\* train_model run or the same loaded blob; after any sequence of
\* train_model, load_model and classify_text calls, a retraining that
\* raises part-way included.
C29_TrainedMeansFittedTogether ==
    \A o \in DOMAIN heap :
        heap[o].is_trained =>
            /\ heap[o].vectorizer.fitted
            /\ heap[o].model.fitted
            /\ heap[o].vectorizer.run = heap[o].model.run

\* ----------------------------------------------------------------- C30
\* The least number of pages of the given size that hold n results.
PagesFor(n, size) == CHOOSE k \in 0 .. n : k * size >= n /\ (k - 1) * size < n

\* C30: the pages of /search partition the result list: for size >= 1 a
\* page holds at most size results, page p of 1..total_pages holds the
\* results (p-1)*size+1 .. p*size of the list, total_pages is
\* ceil(total / size), a page outside 1..total_pages (page <= 0 included)
\* holds no result; size = 0 gives an error response.
C30_PagesPartitionResults ==
    last.op = "/search" =>
        LET full == last.ret.results
            n == Len(full)
            page == last.arg.page
            size == last.arg.size
            response == last.ret.response
        IN  IF size = 0
            THEN DOMAIN response = {"error"}
            ELSE /\ last.exc = None
                 /\ response.total = n
                 /\ Len(response.results) <= size
                 /\ response.total_pages = PagesFor(n, size)
                 /\ page \in 1 .. response.total_pages =>
                        response.results =
                            SubSeq(full, (page - 1) * size + 1, Min(page * size, n))
                 /\ page \notin 1 .. response.total_pages =>
                        response.results = << >>

====
